---------------------------- MODULE Spec2Model ----------------------------
(***************************************************************************)
(* A model of KarlTDebiec/common: the process-execution helpers of         *)
(* general.py (run_command, run_command_live), the file helpers of file.py *)
(* and files.py (rename_preexisting_outfile, temporary_filename, temp_file,*)
(* temp_directory), the validators of validation.py, main and the         *)
(* verbosity flags of the tool base classes (cltool.py,                    *)
(* command_line_tool.py, command_line_interface.py), the argument groups   *)
(* and get_validator of argument_parsing.py, set_logging_verbosity of      *)
(* logs.py and validate_enum.                                              *)
(*                                                                         *)
(* Each family of functions has its own specification over the module's    *)
(* variables: SpecRun, SpecFiles, SpecTemp, SpecValidate, SpecPath,        *)
(* SpecMain, SpecGroups, SpecLogging, SpecParser, SpecWrapped and          *)
(* SpecEnum.  The variables of the other families keep their initial       *)
(* value.                                                                  *)
(***************************************************************************)
EXTENDS Integers, Sequences, FiniteSets, TLC

VARIABLES
    \* ---- general.py: one call of run_command / run_command_live ----
    fn,                   \* which function is called
    command,              \* the shell command: [prog, exit]
    timeout,              \* "finite" or "None"
    acceptable_exitcodes, \* <<>> for None, or <<set of exit codes>>
    pc,                   \* position of the calling thread
    child,                \* [state, at, code]: the process started by Popen
    pipe,                 \* per stream: the byte lines buffered in the OS pipe
    rdOpen,               \* per stream: the caller's read end is still open
    reader,               \* per stream: state of the read_stream thread
    lines,                \* per stream: stdout_lines / stderr_lines
    captured,             \* per stream: bytes returned by communicate()
    exitcode,             \* local exitcode: <<>> while unset, then <<code>>
    text,                 \* per stream: stdout_str / stderr_str
    pending,              \* exception travelling through Popen.__exit__
    outcome,              \* what the caller of the function observes
    written,              \* per stream: every byte line the command has written
    \* ---- file.py, files.py: a directory and rename_preexisting_outfile ----
    fs,                   \* the directory: name of each existing file -> content
    stamp,                \* number of files created so far
    ncalls,               \* number of calls of rename_preexisting_outfile so far
    last,                 \* the last operation: what it was given and what it did
    pristine,             \* only 'out.txt' was created and renamed, from no backups
    renames,              \* number of calls that found 'out.txt' existing
    \* ---- file.py, files.py: one with-block of a temporary helper ----
    helper,               \* which context manager is used
    tpc,                  \* "enter", "body", "cleanup" or "exited"
    tpath,                \* what is on disk at the helper's path
    bodyDid,              \* what the body of the with-block did, in order
    bodyLeft,             \* what was at the path when the body ended
    texc,                 \* the exception in flight, then the one the block raises
    tlog,                 \* messages logged by the helper
    cleanupDenied,        \* the cleanup's removal raised PermissionError
    \* ---- validation.py: one call of a validator ----
    validator,            \* which validator is called
    value,                \* the value given: a string, as its characters
    min_value,            \* <<>> for None, or <<n>>
    max_value,            \* <<>> for None, or <<n>>
    choices,              \* <<>> for None, or <<set of ints>>
    values,               \* validate_ints: the collection given
    length,               \* validate_ints: <<>> for None, or <<n>>
    options,              \* validate_str: the options, in iteration order
    result,               \* <<>> before the call, then <<what the call did>>
    \* ---- validation.py: one call of a path validator ----
    pfn,                  \* which path validator is called
    pvalue,               \* the path given, as its pieces
    file_ok,
    directory_ok,
    default_directory,    \* <<>> for None, or <<path>>
    create_directory,
    disk,                 \* absolute path of each existing entry -> "file" / "dir"
    permitted,            \* the process may read and write what is on the disk
    presult,              \* <<>> before the call, then <<what the call did>>
    \* ---- cltool.py, command_line_tool.py, command_line_interface.py: main ----
    tool,                 \* the base class of the tool that runs
    argv,                 \* the command line
    cpc,                  \* position in main
    consumed,             \* number of arguments of argv consumed by the parser
    verbosity,            \* namespace.verbosity: <<>> while unset, then <<n>>
    seen,                 \* the parser's seen_non_default_actions
    level,                \* level of the root logger; <<>> while main has not set it
    ran,                  \* <<>>, then <<what the handler found when it ran>>
    \* ---- argument_parsing.py: a parser and get_arg_groups_by_name ----
    action_groups,        \* parser._action_groups: the groups, in order
    made,                 \* number of groups created so far
    names,                \* the names given to get_arg_groups_by_name
    returned,             \* <<>> before the call, then <<the dictionary returned>>
    \* ---- logs.py, logging.py, cltool.py: the root logger of one process ----
    rootHandlers,         \* the root logger has a handler: logging is configured
    rootLevel,            \* the level of the root logger
    logcalls,             \* the calls made so far: [fn, verbosity, raised]
    \* ---- argument_parsing.py: a parser on which several calls are made ----
    parser,               \* parser._action_groups: the groups, in order
    created,              \* number of groups created so far
    history,              \* the operations so far: what each was given and did
    \* ---- argument_parsing.py: one call of a function made by get_validator ----
    wcall,                \* the function wrapped, its kwargs, and the value given
    inner,                \* <<>>, then <<what function(value, **kwargs) did>>
    wrapped,              \* <<>>, then <<what the caller of wrapped(value) observes>>
    \* ---- validation.py: one call of validate_enum ----
    evalue,               \* the value given: a member, or a string as its pieces
    eclass,               \* the enum argument: the name of the class given
    eresult               \* <<>> before the call, then <<what the call did>>

runVars == <<fn, command, timeout, acceptable_exitcodes, pc, child, pipe,
             rdOpen, reader, lines, captured, exitcode, text, pending,
             outcome, written>>

fsVars == <<fs, stamp, ncalls, last, pristine, renames>>

tmpVars == <<helper, tpc, tpath, bodyDid, bodyLeft, texc, tlog, cleanupDenied>>

valVars == <<validator, value, min_value, max_value, choices, values, length,
             options, result>>

pathVars == <<pfn, pvalue, file_ok, directory_ok, default_directory,
              create_directory, disk, permitted, presult>>

cliVars == <<tool, argv, cpc, consumed, verbosity, seen, level, ran>>

groupVars == <<action_groups, made, names, returned>>

logVars == <<rootHandlers, rootLevel, logcalls>>

parserVars == <<parser, created, history>>

wrapVars == <<wcall, inner, wrapped>>

enumVars == <<evalue, eclass, eresult>>

vars == <<runVars, fsVars, tmpVars, valVars, pathVars, cliVars, groupVars,
          logVars, parserVars, wrapVars, enumVars>>

\* What the steps of one family leave alone: the other families' variables.
nonRunVars == <<fsVars, tmpVars, valVars, pathVars, cliVars, groupVars,
                logVars, parserVars, wrapVars, enumVars>>
nonFsVars == <<runVars, tmpVars, valVars, pathVars, cliVars, groupVars,
               logVars, parserVars, wrapVars, enumVars>>
nonTmpVars == <<runVars, fsVars, valVars, pathVars, cliVars, groupVars,
                logVars, parserVars, wrapVars, enumVars>>
nonValVars == <<runVars, fsVars, tmpVars, pathVars, cliVars, groupVars,
                logVars, parserVars, wrapVars, enumVars>>
nonPathVars == <<runVars, fsVars, tmpVars, valVars, cliVars, groupVars,
                 logVars, parserVars, wrapVars, enumVars>>
nonCliVars == <<runVars, fsVars, tmpVars, valVars, pathVars, groupVars,
                logVars, parserVars, wrapVars, enumVars>>
nonGroupVars == <<runVars, fsVars, tmpVars, valVars, pathVars, cliVars,
                  logVars, parserVars, wrapVars, enumVars>>
nonLogVars == <<runVars, fsVars, tmpVars, valVars, pathVars, cliVars,
                groupVars, parserVars, wrapVars, enumVars>>
nonParserVars == <<runVars, fsVars, tmpVars, valVars, pathVars, cliVars,
                   groupVars, logVars, wrapVars, enumVars>>
nonWrapVars == <<runVars, fsVars, tmpVars, valVars, pathVars, cliVars,
                 groupVars, logVars, parserVars, enumVars>>
nonEnumVars == <<runVars, fsVars, tmpVars, valVars, pathVars, cliVars,
                 groupVars, logVars, parserVars, wrapVars>>

---------------------------------------------------------------------------
(* Bounds *)
MaxWrites == 3      \* longest command: number of lines it writes
PipeCap == 1        \* lines an OS pipe buffers before a write blocks
MaxCreates == 3     \* files created in the directory
MaxCalls == 3       \* calls of rename_preexisting_outfile
MaxBodyOps == 4     \* things the body of a with-block does to the path
MaxStrLen == 3      \* longest string given to a validator
MaxBound == 2       \* largest min_value, max_value or choice
MaxValues == 2      \* longest collection given to validate_ints
MaxElemLen == 1     \* longest string in a collection given to validate_ints
MaxOptLen == 2      \* longest string given to validate_str
MaxOptions == 2     \* most options given to validate_str
MaxPathLen == 3     \* longest path given to a path validator, in pieces
MaxArgs == 3        \* longest command line, in arguments
MaxGroups == 2      \* groups added to a parser before the call
MaxNames == 2       \* names given to get_arg_groups_by_name
MaxVerbosity == 4   \* largest verbosity given to a logging call
MaxLogCalls == 3    \* calls that set the logging level in one process
MaxParserOps == 3   \* groups added to and calls made on one parser
MaxEnumLen == 3     \* longest string given to validate_enum, in pieces

---------------------------------------------------------------------------
(* Values *)
Streams == {"stdout", "stderr"}

\* A line of output as bytes: ASCII, a two-byte UTF-8 character, or the
\* byte 0xFF, which is not valid UTF-8.
ByteLines == {"a", "C3A9", "FF"}
ExitCodes == {0, 1}

SeqsUpTo(S, n) == UNION {[1..k -> S] : k \in 0..n}

\* A command writes the lines of prog in order, each to the named stream,
\* and then exits with the code in exit; exit = <<>> is a command that never
\* exits by itself (sleep infinity).
Commands ==
    [prog : SeqsUpTo(Streams \X ByteLines, MaxWrites),
     exit : {<<>>} \cup {<<c>> : c \in ExitCodes}]

NoChild == [state |-> "none", at |-> 1]
EachStream(v) == [s \in Streams |-> v]

---------------------------------------------------------------------------
(* Decoding.  bytes.decode("utf8") fails on 0xFF; ISO-8859-1 maps every   *)
(* byte to one character, so it never fails but reads a two-byte UTF-8     *)
(* character as two characters.                                            *)
Utf8Valid(b) == b # "FF"

Utf8(b) == IF b = "C3A9" THEN "e-acute" ELSE b

Latin1(b) ==
    CASE b = "C3A9" -> "A-tilde,copyright"
      [] b = "FF"   -> "y-diaeresis"
      [] OTHER      -> b

AllValid(bs) == \A i \in 1..Len(bs) : Utf8Valid(bs[i])

\* general.py 32-39: try utf8, except UnicodeDecodeError: ISO-8859-1
DecodeUtf8(bs) == [i \in 1..Len(bs) |-> Utf8(bs[i])]

DecodeFallbackLatin1(bs) == [i \in 1..Len(bs) |-> Latin1(bs[i])]

Decode(bs) == IF AllValid(bs) THEN DecodeUtf8(bs) ELSE DecodeFallbackLatin1(bs)

\* general.py 26-27 and 73-74
DefaultExitcodes == {0}

Acceptable(a) == IF a = <<>> THEN DefaultExitcodes ELSE a[1]

\* general.py 41-49 and 113-121: the text of the ValueError
Message(cmd, code, out, err) ==
    [command |-> cmd, exitcode |-> code, stdout |-> out, stderr |-> err]

\* A slip the claims must notice: acceptable_exitcodes ignored.
ExitcodeRejected_OnlyZero(code, a) == code # 0

\* general.py 40 and 112
ExitcodeRejected(code, a) == code \notin Acceptable(a)

NoOutcome == [kind |-> "none", value |-> <<>>]

NoOp == [op |-> "none", by |-> "none", outfile |-> <<>>, backup |-> <<>>,
         before |-> <<>>]

\* validate_ints given nothing
NoValues == [sized |-> TRUE, items |-> <<>>]

\* The value of the variables of a family no step of the specification uses.
FsIdle ==
    /\ fs = <<>>
    /\ stamp = 0
    /\ ncalls = 0
    /\ last = NoOp
    /\ pristine = FALSE
    /\ renames = 0

ValIdle ==
    /\ validator = "none"
    /\ value = <<>>
    /\ min_value = <<>>
    /\ max_value = <<>>
    /\ choices = <<>>
    /\ values = NoValues
    /\ length = <<>>
    /\ options = <<>>
    /\ result = <<>>

PathIdle ==
    /\ pfn = "none"
    /\ pvalue = <<>>
    /\ file_ok = FALSE
    /\ directory_ok = FALSE
    /\ default_directory = <<>>
    /\ create_directory = FALSE
    /\ disk = <<>>
    /\ permitted = FALSE
    /\ presult = <<>>

CliIdle ==
    /\ tool = "none"
    /\ argv = <<>>
    /\ cpc = "idle"
    /\ consumed = 0
    /\ verbosity = <<>>
    /\ seen = {}
    /\ level = <<>>
    /\ ran = <<>>

GroupsIdle ==
    /\ action_groups = <<>>
    /\ made = 0
    /\ names = <<>>
    /\ returned = <<>>

TmpIdle ==
    /\ helper = "none"
    /\ tpc = "idle"
    /\ tpath = "absent"
    /\ bodyDid = <<>>
    /\ bodyLeft = "absent"
    /\ texc = "none"
    /\ tlog = <<>>
    /\ cleanupDenied = FALSE

LogIdle ==
    /\ rootHandlers = FALSE
    /\ rootLevel = "WARNING"
    /\ logcalls = <<>>

ParserIdle ==
    /\ parser = <<>>
    /\ created = 0
    /\ history = <<>>

WrapIdle ==
    /\ wcall = <<>>
    /\ inner = <<>>
    /\ wrapped = <<>>

EnumIdle ==
    /\ evalue = <<>>
    /\ eclass = "none"
    /\ eresult = <<>>

RunIdle ==
    /\ fn = "none"
    /\ command = [prog |-> <<>>, exit |-> <<>>]
    /\ timeout = "None"
    /\ acceptable_exitcodes = <<>>
    /\ pc = "idle"
    /\ child = NoChild
    /\ pipe = EachStream(<<>>)
    /\ rdOpen = EachStream(FALSE)
    /\ reader = EachStream("idle")
    /\ lines = EachStream(<<>>)
    /\ captured = EachStream(<<>>)
    /\ exitcode = <<>>
    /\ text = EachStream(<<>>)
    /\ pending = "none"
    /\ outcome = NoOutcome
    /\ written = EachStream(<<>>)

---------------------------------------------------------------------------
(* Init: a caller is about to call one of the two functions. *)
InitRun ==
    /\ fn \in {"run_command", "run_command_live"}
    /\ command \in Commands
    /\ timeout \in {"finite", "None"}
    /\ acceptable_exitcodes \in {<<>>, <<{1}>>, <<{0, 1}>>}
    /\ pc = "call"
    /\ child = NoChild
    /\ pipe = EachStream(<<>>)
    /\ rdOpen = EachStream(FALSE)
    /\ reader = EachStream("idle")
    /\ lines = EachStream(<<>>)
    /\ captured = EachStream(<<>>)
    /\ exitcode = <<>>
    /\ text = EachStream(<<>>)
    /\ pending = "none"
    /\ outcome = NoOutcome
    /\ written = EachStream(<<>>)
    /\ FsIdle
    /\ EnumIdle
    /\ WrapIdle
    /\ ParserIdle
    /\ LogIdle
    /\ PathIdle
    /\ CliIdle
    /\ GroupsIdle
    /\ TmpIdle
    /\ ValIdle

---------------------------------------------------------------------------
(* The child process and the pipes (the operating system's part).          *)

Prog == command.prog

\* The command writes its next line.  A write to a pipe whose read end is
\* closed kills the writer (SIGPIPE); a write to a full pipe blocks.
ChildWrite ==
    /\ child.state = "running"
    /\ child.at <= Len(Prog)
    /\ LET s == Prog[child.at][1]
           b == Prog[child.at][2]
       IN  IF ~rdOpen[s]
           THEN /\ child' = [child EXCEPT !.state = "killed"]
                /\ UNCHANGED <<pipe, written>>
           ELSE /\ Len(pipe[s]) < PipeCap
                /\ pipe' = [pipe EXCEPT ![s] = Append(@, b)]
                /\ written' = [written EXCEPT ![s] = Append(@, b)]
                /\ child' = [child EXCEPT !.at = @ + 1]
    /\ UNCHANGED nonRunVars
    /\ UNCHANGED <<fn, command, timeout, acceptable_exitcodes, pc, rdOpen,
                   reader, lines, captured, exitcode, text, pending, outcome>>

\* The command has written everything and exits, unless it never exits.
ChildExit ==
    /\ child.state = "running"
    /\ child.at > Len(Prog)
    /\ command.exit # <<>>
    /\ child' = [child EXCEPT !.state = "exited"]
    /\ UNCHANGED nonRunVars
    /\ UNCHANGED <<fn, command, timeout, acceptable_exitcodes, pc, pipe, rdOpen,
                   reader, lines, captured, exitcode, text, pending, outcome,
                   written>>

ChildGone == child.state \in {"exited", "killed"}

---------------------------------------------------------------------------
(* Steps shared by both functions.                                         *)

\* general.py 29 and 85-93: Popen(command, shell=True, stdout=PIPE, stderr=PIPE)
Popen ==
    /\ child' = [state |-> "running", at |-> 1]
    /\ rdOpen' = EachStream(TRUE)

\* child.wait(timeout), general.py 30 and 107: the exit code once the child
\* has exited
WaitReturns(next) ==
    /\ pc = "wait"
    /\ child.state = "exited"
    /\ exitcode' = command.exit
    /\ pc' = next
    /\ UNCHANGED nonRunVars
    /\ UNCHANGED <<fn, command, timeout, acceptable_exitcodes, child, pipe,
                   rdOpen, reader, lines, captured, text, pending, outcome,
                   written>>

\* child.wait(timeout): TimeoutExpired when the timeout passes first.  The
\* exception leaves the with block, so Popen.__exit__ runs next.
WaitTimesOut ==
    /\ pc = "wait"
    /\ timeout = "finite"
    /\ child.state = "running"
    /\ pending' = "TimeoutExpired"
    /\ pc' = "exit"
    /\ UNCHANGED nonRunVars
    /\ UNCHANGED <<fn, command, timeout, acceptable_exitcodes, child, pipe,
                   rdOpen, reader, lines, captured, exitcode, text, outcome,
                   written>>

\* general.py 40-49 and 112-121
CheckExitcode ==
    /\ pc = "check"
    /\ pending' = IF ExitcodeRejected(exitcode[1], acceptable_exitcodes)
                  THEN "ValueError" ELSE "none"
    /\ pc' = "exit"
    /\ UNCHANGED nonRunVars
    /\ UNCHANGED <<fn, command, timeout, acceptable_exitcodes, child, pipe,
                   rdOpen, reader, lines, captured, exitcode, text, outcome,
                   written>>

\* Leaving "with Popen(...) as child" (general.py 29, 85): Popen.__exit__
\* closes child.stdout and child.stderr ...
PopenExitCloses ==
    /\ pc = "exit"
    /\ rdOpen' = EachStream(FALSE)
    /\ pc' = "exit_wait"
    /\ UNCHANGED nonRunVars
    /\ UNCHANGED <<fn, command, timeout, acceptable_exitcodes, child, pipe,
                   reader, lines, captured, exitcode, text, pending, outcome,
                   written>>

Raised(kind) ==
    IF kind = "ValueError"
    THEN [kind |-> kind,
          value |-> <<Message(command, exitcode[1], text["stdout"], text["stderr"])>>]
    ELSE [kind |-> kind, value |-> <<>>]

\* general.py 51 and 123
Returned == [kind |-> "returned",
             value |-> <<exitcode[1], text["stdout"], text["stderr"]>>]

\* ... and then waits for the child without a timeout; only then does the
\* pending exception reach the caller, or the return statement run.
PopenExitWaits ==
    /\ pc = "exit_wait"
    /\ ChildGone
    /\ outcome' = IF pending = "none" THEN Returned ELSE Raised(pending)
    /\ pc' = "done"
    /\ UNCHANGED nonRunVars
    /\ UNCHANGED <<fn, command, timeout, acceptable_exitcodes, child, pipe,
                   rdOpen, reader, lines, captured, exitcode, text, pending,
                   written>>

---------------------------------------------------------------------------
(* run_command, general.py 10-51                                           *)

RunCommand_Popen ==
    /\ fn = "run_command"
    /\ pc = "call"
    /\ Popen
    /\ pc' = "wait"
    /\ UNCHANGED nonRunVars
    /\ UNCHANGED <<fn, command, timeout, acceptable_exitcodes, pipe, reader,
                   lines, captured, exitcode, text, pending, outcome, written>>

RunCommand_Wait ==
    /\ fn = "run_command"
    /\ WaitReturns("communicate")

\* general.py 31: child.communicate() reads both pipes to end-of-file and
\* closes them.  The child has exited, so what it wrote is in the pipes.
RunCommand_Communicate ==
    /\ fn = "run_command"
    /\ pc = "communicate"
    /\ captured' = pipe
    /\ pipe' = EachStream(<<>>)
    /\ rdOpen' = EachStream(FALSE)
    /\ pc' = "decode"
    /\ UNCHANGED nonRunVars
    /\ UNCHANGED <<fn, command, timeout, acceptable_exitcodes, child, reader,
                   lines, exitcode, text, pending, outcome, written>>

\* general.py 32-39
RunCommand_Decode ==
    /\ fn = "run_command"
    /\ pc = "decode"
    /\ text' = [s \in Streams |-> Decode(captured[s])]
    /\ pc' = "check"
    /\ UNCHANGED nonRunVars
    /\ UNCHANGED <<fn, command, timeout, acceptable_exitcodes, child, pipe,
                   rdOpen, reader, lines, captured, exitcode, pending, outcome,
                   written>>

---------------------------------------------------------------------------
(* run_command_live, general.py 57-123                                     *)

\* general.py 85-102: Popen(..., text=True, bufsize=0, encoding="utf-8") and
\* the two reader threads started
RunCommandLive_Popen ==
    /\ fn = "run_command_live"
    /\ pc = "call"
    /\ Popen
    /\ reader' = EachStream("running")
    /\ pc' = "join_stdout"
    /\ UNCHANGED nonRunVars
    /\ UNCHANGED <<fn, command, timeout, acceptable_exitcodes, pipe, lines,
                   captured, exitcode, text, pending, outcome, written>>

\* The text layer reads a chunk of what the pipe holds and decodes it as
\* strict UTF-8 (encoding="utf-8", errors unset): general.py 80, 92.
StrictUtf8(chunk) == [i \in 1..Len(chunk) |-> Utf8(chunk[i])]

\* general.py 79-82: read_stream appends the lines read.  A chunk that is
\* not valid UTF-8 raises UnicodeDecodeError in readline, which ends the
\* thread: the chunk is lost and the stream is neither read nor closed again.
ReadStream_Read(s) ==
    /\ reader[s] = "running"
    /\ rdOpen[s]
    /\ \E k \in 1..Len(pipe[s]) :
         LET chunk == SubSeq(pipe[s], 1, k)
         IN  /\ pipe' = [pipe EXCEPT ![s] = SubSeq(@, k + 1, Len(@))]
             /\ IF AllValid(chunk)
                THEN /\ lines' = [lines EXCEPT ![s] = @ \o StrictUtf8(chunk)]
                     /\ UNCHANGED reader
                ELSE /\ reader' = [reader EXCEPT ![s] = "died"]
                     /\ UNCHANGED lines
    /\ UNCHANGED nonRunVars
    /\ UNCHANGED <<fn, command, timeout, acceptable_exitcodes, pc, child,
                   rdOpen, captured, exitcode, text, pending, outcome, written>>

\* general.py 80, 83: readline returns "" at end-of-file (the pipe is empty
\* and its writer is gone); the loop ends and the stream is closed.
ReadStream_Eof(s) ==
    /\ reader[s] = "running"
    /\ rdOpen[s]
    /\ pipe[s] = <<>>
    /\ ChildGone
    /\ reader' = [reader EXCEPT ![s] = "finished"]
    /\ rdOpen' = [rdOpen EXCEPT ![s] = FALSE]
    /\ UNCHANGED nonRunVars
    /\ UNCHANGED <<fn, command, timeout, acceptable_exitcodes, pc, child, pipe,
                   lines, captured, exitcode, text, pending, outcome, written>>

\* A reader still running when Popen.__exit__ closes its stream: readline
\* raises ValueError (I/O operation on closed file) and the thread ends.
ReadStream_Closed(s) ==
    /\ reader[s] = "running"
    /\ ~rdOpen[s]
    /\ reader' = [reader EXCEPT ![s] = "died"]
    /\ UNCHANGED nonRunVars
    /\ UNCHANGED <<fn, command, timeout, acceptable_exitcodes, pc, child, pipe,
                   rdOpen, lines, captured, exitcode, text, pending, outcome,
                   written>>

AfterJoin(s) == IF s = "stdout" THEN "join_stderr" ELSE "wait"

\* general.py 104-105: thread.join(timeout) returns when the thread has
\* ended ...
Join_Ended(s) ==
    /\ fn = "run_command_live"
    /\ pc = "join_" \o s
    /\ reader[s] # "running"
    /\ pc' = AfterJoin(s)
    /\ UNCHANGED nonRunVars
    /\ UNCHANGED <<fn, command, timeout, acceptable_exitcodes, child, pipe,
                   rdOpen, reader, lines, captured, exitcode, text, pending,
                   outcome, written>>

\* ... or, with a timeout, when the timeout has passed: join raises nothing
\* and the code does not look at is_alive().
Join_TimesOut(s) ==
    /\ fn = "run_command_live"
    /\ pc = "join_" \o s
    /\ timeout = "finite"
    /\ reader[s] = "running"
    /\ pc' = AfterJoin(s)
    /\ UNCHANGED nonRunVars
    /\ UNCHANGED <<fn, command, timeout, acceptable_exitcodes, child, pipe,
                   rdOpen, reader, lines, captured, exitcode, text, pending,
                   outcome, written>>

RunCommandLive_Wait ==
    /\ fn = "run_command_live"
    /\ WaitReturns("assemble")

\* general.py 109-110
RunCommandLive_Assemble ==
    /\ fn = "run_command_live"
    /\ pc = "assemble"
    /\ text' = lines
    /\ pc' = "check"
    /\ UNCHANGED nonRunVars
    /\ UNCHANGED <<fn, command, timeout, acceptable_exitcodes, child, pipe,
                   rdOpen, reader, lines, captured, exitcode, pending, outcome,
                   written>>

---------------------------------------------------------------------------
NextRun ==
    \/ ChildWrite
    \/ ChildExit
    \/ RunCommand_Popen
    \/ RunCommand_Wait
    \/ RunCommand_Communicate
    \/ RunCommand_Decode
    \/ RunCommandLive_Popen
    \/ \E s \in Streams : ReadStream_Read(s)
    \/ \E s \in Streams : ReadStream_Eof(s)
    \/ \E s \in Streams : ReadStream_Closed(s)
    \/ \E s \in Streams : Join_Ended(s)
    \/ \E s \in Streams : Join_TimesOut(s)
    \/ RunCommandLive_Wait
    \/ RunCommandLive_Assemble
    \/ WaitTimesOut
    \/ CheckExitcode
    \/ PopenExitCloses
    \/ PopenExitWaits

SpecRun == InitRun /\ [][NextRun]_vars

---------------------------------------------------------------------------
(* Claims about general.py                                                 *)

StreamOf(prog, s) ==
    LET idx == {i \in 1..Len(prog) : prog[i][1] = s}
        F[i \in 0..Len(prog)] ==
            IF i = 0 THEN <<>>
            ELSE IF i \in idx THEN Append(F[i - 1], prog[i][2]) ELSE F[i - 1]
    IN  F[Len(prog)]

\* What the claims expect of a call whose command ran to its exit: the exit
\* code with the two decoded texts, or ValueError carrying all of them.
Expected(cmd, acc) ==
    LET code == cmd.exit[1]
        out == Decode(StreamOf(cmd.prog, "stdout"))
        err == Decode(StreamOf(cmd.prog, "stderr"))
        ok == IF acc = <<>> THEN code = 0 ELSE code \in acc[1]
    IN  IF ok
        THEN [kind |-> "returned", value |-> <<code, out, err>>]
        ELSE [kind |-> "ValueError",
              value |-> <<[command |-> cmd, exitcode |-> code,
                           stdout |-> out, stderr |-> err]>>]

CallOver(f) == fn = f /\ pc = "done"

\* C1: when run_command comes back without a timeout, it returns (exit
\* code, stdout text, stderr text) exactly when the command's exit code is
\* in acceptable_exitcodes (only 0 by default), and raises ValueError
\* carrying the command, the exit code and both captured texts otherwise.
C1_ExitcodeContract ==
    (CallOver("run_command") /\ outcome.kind # "TimeoutExpired") =>
        /\ command.exit # <<>>
        /\ outcome = Expected(command, acceptable_exitcodes)

\* 'exit 1' with acceptable_exitcodes=[1] has returned exit code 1.
C1_Witness ==
    /\ CallOver("run_command")
    /\ command.exit = <<1>>
    /\ acceptable_exitcodes = <<{1}>>
    /\ outcome.kind = "returned"
    /\ outcome.value[1] = 1

\* 'exit 1' with the default set has raised.
C1_WitnessRaises ==
    /\ CallOver("run_command")
    /\ command.exit = <<1>>
    /\ acceptable_exitcodes = <<>>
    /\ outcome.kind = "ValueError"
    /\ written["stderr"] # <<>>

\* C2: once run_command's timeout has expired, control comes back to the
\* caller with the timeout exception, also for a command that never exits.
\* Stated so that a finite run refutes it: after the expiry the call is over
\* with TimeoutExpired, or some step of the system is still possible.
C2_TimeoutComesBack ==
    (fn = "run_command" /\ pending = "TimeoutExpired") =>
        \/ CallOver("run_command") /\ outcome.kind = "TimeoutExpired"
        \/ ENABLED NextRun

\* C3: run_command_live never deadlocks on an unconsumed pipe: for a command
\* that writes its output and then exits, the call is over or a step is
\* still possible (nobody waits forever for somebody who waits for them).
C3_LiveNeverDeadlocks ==
    (fn = "run_command_live" /\ command.exit # <<>>) =>
        \/ CallOver("run_command_live")
        \/ ENABLED NextRun

\* C4: in run_command_live both readers have read their stream to the end
\* before the exit code is read and the text assembled, so when the call
\* returns or raises the exit-code error the reported text holds every line
\* the command wrote, in order.  Stated for output that is valid UTF-8.
C4_LiveTextComplete ==
    (/\ CallOver("run_command_live")
     /\ outcome.kind \in {"returned", "ValueError"}
     /\ \A s \in Streams : AllValid(StreamOf(Prog, s))) =>
        \A s \in Streams : text[s] = DecodeUtf8(StreamOf(Prog, s))

\* C5: run_command_live has the contract of run_command, output that is not
\* valid UTF-8 included: when it comes back without a timeout, its outcome
\* is the one run_command has for the same command.  Stated for
\* timeout=None, where no wait and no join is cut short.
C5_LiveSameContract ==
    (/\ CallOver("run_command_live")
     /\ timeout = "None") =>
        outcome = Expected(command, acceptable_exitcodes)

---------------------------------------------------------------------------
(* file.py and files.py: rename_preexisting_outfile.                       *)
(* A file name is the sequence of its parts, "out_000.txt" being           *)
(* <<"out", "_", "0", "0", "0", ".", "txt">>; all files live in the        *)
(* working directory, so expandvars, join(getcwd(), ...), normpath and     *)
(* dirname leave the name alone (file.py 31-35, files.py 40-44).           *)

OutTxt == <<"out", ".", "txt">>
Out == <<"out">>
Out000Txt == <<"out", "_", "0", "0", "0", ".", "txt">>
Out001Txt == <<"out", "_", "0", "0", "1", ".", "txt">>

\* The names the directory's user creates files under and passes as outfile.
UserNames == {OutTxt, Out, Out000Txt, Out001Txt}

DigitChar == <<"0", "1", "2", "3", "4", "5", "6", "7", "8", "9">>

RECURSIVE Digits(_)
Digits(n) ==
    IF n < 10 THEN <<DigitChar[n + 1]>>
    ELSE Digits(n \div 10) \o <<DigitChar[(n % 10) + 1]>>

RECURSIVE ZeroPad(_, _)
ZeroPad(ds, width) == IF Len(ds) >= width THEN ds ELSE ZeroPad(<<"0">> \o ds, width)

\* A slip the claims must notice: the index written without padding.
Format03d_Unpadded(i) == Digits(i)

\* f"{backup_i:03d}": at least three digits, zero-padded (file.py 41)
Format03d(i) == ZeroPad(Digits(i), 3)

\* os.path.splitext: split at the last dot, unless only dots precede it
LastDot(name) ==
    LET dots == {i \in 1..Len(name) : name[i] = "."}
    IN  IF dots = {} THEN 0 ELSE CHOOSE i \in dots : \A j \in dots : j <= i

Splitext(name) ==
    LET d == LastDot(name)
    IN  IF d > 0 /\ \E j \in 1..(d - 1) : name[j] # "."
        THEN <<SubSeq(name, 1, d - 1), SubSeq(name, d, Len(name))>>
        ELSE <<name, <<>>>>

\* str.strip("."): leading and trailing dots removed
RECURSIVE StripDots(_)
StripDots(t) ==
    IF t = <<>> THEN t
    ELSE IF Head(t) = "." THEN StripDots(Tail(t))
    ELSE IF t[Len(t)] = "." THEN StripDots(SubSeq(t, 1, Len(t) - 1))
    ELSE t

\* files.py 31-36
get_name(filename) == Splitext(filename)[1]
get_ext(filename) == StripDots(Splitext(filename)[2])

\* file.py 41, files.py 50: f"{filename}_{backup_i:03d}.{extension}"
BackupOutfile(filename, extension, backup_i) ==
    filename \o <<"_">> \o Format03d(backup_i) \o <<".">> \o extension

\* os.path.exists
Exists(dir, name) == name \in DOMAIN dir

\* A slip the claims must notice: the backup name taken without looking.
FirstFreeBackup_Unchecked(dir, filename, extension, backup_i) == backup_i

\* file.py 39-47, files.py 48-56: the loop over backup_i, from the index
\* given, to the first backup name that does not exist
RECURSIVE FirstFreeBackup(_, _, _, _)
FirstFreeBackup(dir, filename, extension, backup_i) ==
    IF ~Exists(dir, BackupOutfile(filename, extension, backup_i))
    THEN backup_i
    ELSE FirstFreeBackup(dir, filename, extension, backup_i + 1)

\* os.rename(src, dst): dst silently replaced when it exists (POSIX)
Rename(dir, src, dst) ==
    [n \in (DOMAIN dir \ {src}) \cup {dst} |-> IF n = dst THEN dir[src] ELSE dir[n]]

\* The body of rename_preexisting_outfile once filename and extension are
\* known: <<the directory afterwards, the backup name used if any>>
MoveUp(dir, outfile, filename, extension) ==
    IF Exists(dir, outfile)
    THEN LET backup_outfile ==
                 BackupOutfile(filename, extension,
                               FirstFreeBackup(dir, filename, extension, 0))
         IN  <<Rename(dir, outfile, backup_outfile), <<backup_outfile>>>>
    ELSE <<dir, <<>>>>

Called(module, outfile, done) ==
    /\ ncalls < MaxCalls
    /\ ncalls' = ncalls + 1
    /\ fs' = done[1]
    /\ last' = [op |-> "call", by |-> module, outfile |-> outfile,
                backup |-> done[2], before |-> fs]
    /\ pristine' = (pristine /\ outfile = OutTxt)
    /\ renames' = IF outfile = OutTxt /\ Exists(fs, OutTxt)
                  THEN renames + 1 ELSE renames
    /\ UNCHANGED stamp
    /\ UNCHANGED nonFsVars

\* file.py 25-47
File_RenamePreexistingOutfile(outfile) ==
    Called("file.py", outfile,
           MoveUp(fs, outfile, Splitext(outfile)[1],
                  StripDots(Splitext(outfile)[2])))

\* files.py 39-56
Files_RenamePreexistingOutfile(outfile) ==
    Called("files.py", outfile,
           MoveUp(fs, outfile, get_name(outfile), get_ext(outfile)))

\* The user of the directory writes a new file.
CreateFile(name) ==
    /\ stamp < MaxCreates
    /\ ~Exists(fs, name)
    /\ stamp' = stamp + 1
    /\ fs' = [n \in DOMAIN fs \cup {name} |->
                 IF n = name THEN [origin |-> name, version |-> stamp + 1]
                 ELSE fs[n]]
    /\ last' = [op |-> "create", by |-> "user", outfile |-> name,
                backup |-> <<>>, before |-> fs]
    /\ pristine' = (pristine /\ name = OutTxt)
    /\ UNCHANGED <<ncalls, renames>>
    /\ UNCHANGED nonFsVars

IsBackupOfOutTxt(name) ==
    /\ Len(name) > 4
    /\ SubSeq(name, 1, 2) = <<"out", "_">>
    /\ SubSeq(name, Len(name) - 1, Len(name)) = <<".", "txt">>

\* Any directory contents to start from.
InitFiles ==
    /\ \E present \in SUBSET UserNames :
           fs = [n \in present |-> [origin |-> n, version |-> 0]]
    /\ stamp = 0
    /\ ncalls = 0
    /\ last = NoOp
    /\ pristine = (\A n \in DOMAIN fs : ~IsBackupOfOutTxt(n))
    /\ renames = 0
    /\ RunIdle
    /\ EnumIdle
    /\ WrapIdle
    /\ ParserIdle
    /\ LogIdle
    /\ PathIdle
    /\ CliIdle
    /\ GroupsIdle
    /\ TmpIdle
    /\ ValIdle

NextFiles ==
    \/ \E name \in UserNames : CreateFile(name)
    \/ \E outfile \in UserNames : File_RenamePreexistingOutfile(outfile)
    \/ \E outfile \in UserNames : Files_RenamePreexistingOutfile(outfile)

SpecFiles == InitFiles /\ [][NextFiles]_vars

---------------------------------------------------------------------------
(* Claims about rename_preexisting_outfile                                 *)

LastCall == last.op = "call"

\* C6: rename_preexisting_outfile never overwrites or loses a file: after a
\* call every file that existed before it exists with its content unchanged,
\* the outfile under the backup name and every other file under its own
\* name; the backup name did not exist before the call; and a call on a
\* path that does not exist changes nothing.
C6_NothingLost ==
    LastCall =>
        LET before == last.before
            outfile == last.outfile
        IN  IF outfile \in DOMAIN before
            THEN /\ Len(last.backup) = 1
                 /\ last.backup[1] \notin DOMAIN before
                 /\ DOMAIN fs = (DOMAIN before \ {outfile}) \cup {last.backup[1]}
                 /\ fs[last.backup[1]] = before[outfile]
                 /\ \A f \in DOMAIN before \ {outfile} : fs[f] = before[f]
            ELSE /\ last.backup = <<>>
                 /\ fs = before

\* A call moved 'out.txt' up past an existing 'out_000.txt'.
C6_Witness ==
    /\ LastCall
    /\ last.outfile = OutTxt
    /\ OutTxt \in DOMAIN last.before
    /\ Out000Txt \in DOMAIN last.before
    /\ last.backup = <<Out001Txt>>
    /\ fs[Out000Txt] = last.before[Out000Txt]

\* The suffix the claim expects for index n: three digits, zero-padded.
ThreeDigits(n) ==
    <<DigitChar[((n \div 100) % 10) + 1], DigitChar[((n \div 10) % 10) + 1],
      DigitChar[(n % 10) + 1]>>

OutBackup(n) == <<"out", "_">> \o ThreeDigits(n) \o <<".", "txt">>

\* C7: starting with no backups and with 'out.txt' (re)created before each
\* call, the k-th call renames it to 'out_<k-1>.txt' with a zero-padded
\* three-digit index ('out_000.txt', then 'out_001.txt', ...), which is the
\* lowest index whose backup name was free; afterwards 'out.txt' no longer
\* exists and the backups hold the files in the order they were created.
C7_NumberedInCreationOrder ==
    (/\ pristine
     /\ LastCall
     /\ OutTxt \in DOMAIN last.before) =>
        /\ last.backup = <<OutBackup(renames - 1)>>
        /\ OutBackup(renames - 1) \notin DOMAIN last.before
        /\ \A i \in 0..(renames - 2) : OutBackup(i) \in DOMAIN last.before
        /\ OutTxt \notin DOMAIN fs
        /\ \A i, j \in 0..(renames - 1) :
               i < j => fs[OutBackup(i)].version < fs[OutBackup(j)].version

\* The third call in a row has produced 'out_002.txt'.
C7_Witness ==
    /\ pristine
    /\ LastCall
    /\ renames = 3
    /\ last.backup = <<<<"out", "_", "0", "0", "2", ".", "txt">>>>
    /\ Out000Txt \in DOMAIN fs
    /\ Out001Txt \in DOMAIN fs

---------------------------------------------------------------------------
(* file.py and files.py: the temporary helpers.  One with-block:           *)
(*     with helper() as path: body                                         *)
(* The body may write a file at the path, delete it, or make a directory   *)
(* there, and ends normally or by raising.  The removal in the cleanup may *)
(* be refused by the operating system (PermissionError).                   *)

TemporaryFilenames == {"file.temporary_filename", "files.temporary_filename"}
Helpers == TemporaryFilenames \cup {"file.temp_file", "file.temp_directory"}

InitTemp ==
    /\ helper \in Helpers
    /\ tpc = "enter"
    /\ tpath = "absent"
    /\ bodyDid = <<>>
    /\ bodyLeft = "absent"
    /\ texc = "none"
    /\ tlog = <<>>
    /\ cleanupDenied = FALSE
    /\ RunIdle
    /\ EnumIdle
    /\ WrapIdle
    /\ ParserIdle
    /\ LogIdle
    /\ PathIdle
    /\ CliIdle
    /\ GroupsIdle
    /\ FsIdle
    /\ ValIdle

\* file.py 57-62: the file is created, closed and removed again, and its
\* name is yielded.
File_TemporaryFilename_Enter ==
    /\ helper = "file.temporary_filename"
    /\ tpc = "enter"
    /\ tpath' = "absent"
    /\ tpc' = "body"
    /\ UNCHANGED <<helper, bodyDid, bodyLeft, texc, tlog, cleanupDenied>>
    /\ UNCHANGED nonTmpVars

\* files.py 61-64: the file is created and closed, and its name yielded
Files_TemporaryFilename_Enter ==
    /\ helper = "files.temporary_filename"
    /\ tpc = "enter"
    /\ tpath' = "file"
    /\ tpc' = "body"
    /\ UNCHANGED <<helper, bodyDid, bodyLeft, texc, tlog, cleanupDenied>>
    /\ UNCHANGED nonTmpVars

\* file.py 83-88: the file is created and closed; remove(temp_file) is given
\* the file object, not its name, and raises TypeError before the yield
TempFile_Enter ==
    /\ helper = "file.temp_file"
    /\ tpc = "enter"
    /\ tpath' = "file"
    /\ texc' = "TypeError"
    /\ tpc' = "cleanup"
    /\ UNCHANGED <<helper, bodyDid, bodyLeft, tlog, cleanupDenied>>
    /\ UNCHANGED nonTmpVars

\* file.py 103-106
TempDirectory_Enter ==
    /\ helper = "file.temp_directory"
    /\ tpc = "enter"
    /\ tpath' = "dir"
    /\ tpc' = "body"
    /\ UNCHANGED <<helper, bodyDid, bodyLeft, texc, tlog, cleanupDenied>>
    /\ UNCHANGED nonTmpVars

\* What a step of the body makes of the path.
BodyEffect(op, at) ==
    CASE op = "write" /\ at = "absent" -> "file"
      [] op = "delete" /\ at = "file"  -> "absent"
      [] op = "mkdir" /\ at = "absent" -> "dir"
      [] op = "rmtree" /\ at = "dir"   -> "absent"
      [] OTHER                         -> at

Body(op) ==
    /\ tpc = "body"
    /\ Len(bodyDid) < MaxBodyOps
    /\ BodyEffect(op, tpath) # tpath
    /\ tpath' = BodyEffect(op, tpath)
    /\ bodyDid' = Append(bodyDid, op)
    /\ UNCHANGED <<helper, tpc, bodyLeft, texc, tlog, cleanupDenied>>
    /\ UNCHANGED nonTmpVars

\* The body ends, normally or by raising; the generator resumes at the
\* yield and runs its finally clause.
BodyEnds(raises) ==
    /\ tpc = "body"
    /\ texc' = IF raises THEN "BodyError" ELSE "none"
    /\ bodyLeft' = tpath
    /\ tpc' = "cleanup"
    /\ UNCHANGED <<helper, tpath, bodyDid, tlog, cleanupDenied>>
    /\ UNCHANGED nonTmpVars

\* A slip the claims must notice: the cleanup never removes.
File_CleanupRemoves_Never(at) == FALSE

\* file.py 64-65: named_temporary_file is not None and isfile(name)
File_CleanupRemoves(at) == at = "file"

\* file.py 63-73: the finally clause; PermissionError is caught and logged
File_TemporaryFilename_Cleanup ==
    /\ helper = "file.temporary_filename"
    /\ tpc = "cleanup"
    /\ IF File_CleanupRemoves(tpath)
       THEN \E allowed \in BOOLEAN :
              IF allowed
              THEN /\ tpath' = "absent"
                   /\ UNCHANGED <<tlog, cleanupDenied>>
              ELSE /\ tlog' = Append(tlog, "temporary_filename encountered PermissionException")
                   /\ cleanupDenied' = TRUE
                   /\ UNCHANGED tpath
       ELSE UNCHANGED <<tpath, tlog, cleanupDenied>>
    /\ tpc' = "exited"
    /\ UNCHANGED <<helper, bodyDid, bodyLeft, texc>>
    /\ UNCHANGED nonTmpVars

\* os.remove(path): the error it raises, "none" when it removes the file
RemoveError(at, allowed) ==
    CASE at = "absent" -> "FileNotFoundError"
      [] at = "dir"    -> "IsADirectoryError"
      [] OTHER         -> IF allowed THEN "none" ELSE "PermissionError"

\* files.py 65-66: finally: remove(f.name), nothing caught.  An exception
\* raised in a finally clause replaces the one in flight.
Files_TemporaryFilename_Cleanup ==
    /\ helper = "files.temporary_filename"
    /\ tpc = "cleanup"
    /\ \E allowed \in BOOLEAN :
         LET error == RemoveError(tpath, allowed)
         IN  /\ tpath' = IF error = "none" THEN "absent" ELSE tpath
             /\ texc' = IF error = "none" THEN texc ELSE error
             /\ cleanupDenied' = (error = "PermissionError")
    /\ tpc' = "exited"
    /\ UNCHANGED <<helper, bodyDid, bodyLeft, tlog>>
    /\ UNCHANGED nonTmpVars

\* file.py 89-90: temp_file is the file object, which has no exists()
TempFile_Cleanup ==
    /\ helper = "file.temp_file"
    /\ tpc = "cleanup"
    /\ texc' = "AttributeError"
    /\ tpc' = "exited"
    /\ UNCHANGED <<helper, tpath, bodyDid, bodyLeft, tlog, cleanupDenied>>
    /\ UNCHANGED nonTmpVars

\* TemporaryDirectory.cleanup(): the error it raises, "none" when the tree
\* is removed or already gone
RmtreeError(at, allowed) ==
    CASE at = "absent" -> "none"
      [] at = "file"   -> "NotADirectoryError"
      [] OTHER         -> IF allowed THEN "none" ELSE "PermissionError"

\* file.py 107-109: finally: temp_directory.cleanup(), nothing caught
TempDirectory_Cleanup ==
    /\ helper = "file.temp_directory"
    /\ tpc = "cleanup"
    /\ \E allowed \in BOOLEAN :
         LET error == RmtreeError(tpath, allowed)
         IN  /\ tpath' = IF error = "none" THEN "absent" ELSE tpath
             /\ texc' = IF error = "none" THEN texc ELSE error
             /\ cleanupDenied' = (error = "PermissionError")
    /\ tpc' = "exited"
    /\ UNCHANGED <<helper, bodyDid, bodyLeft, tlog>>
    /\ UNCHANGED nonTmpVars

NextTemp ==
    \/ File_TemporaryFilename_Enter
    \/ Files_TemporaryFilename_Enter
    \/ TempFile_Enter
    \/ TempDirectory_Enter
    \/ \E op \in {"write", "delete", "mkdir", "rmtree"} : Body(op)
    \/ \E raises \in BOOLEAN : BodyEnds(raises)
    \/ File_TemporaryFilename_Cleanup
    \/ Files_TemporaryFilename_Cleanup
    \/ TempFile_Cleanup
    \/ TempDirectory_Cleanup

SpecTemp == InitTemp /\ [][NextTemp]_vars

---------------------------------------------------------------------------
(* Claims about the temporary helpers                                      *)

BlockExited == tpc = "exited"

\* C8 as first stated: after a temporary_filename block exits, normally or
\* through an exception, nothing exists at the yielded path, whatever the
\* body did with that path (wrote a file there, left it absent, deleted it,
\* or created something else there).  Stated for the runs in which the
\* operating system refuses no removal.
C8_NothingAtPath ==
    (BlockExited /\ helper \in TemporaryFilenames /\ ~cleanupDenied) =>
        tpath = "absent"

\* C8, amended: after a temporary_filename block exits, normally or through
\* an exception, no regular file is left at the yielded path unless its
\* removal was refused with a permission error; a directory the body made
\* at the path is left in place.
C8_NoFileLeftUnlessRefused ==
    (BlockExited /\ helper \in TemporaryFilenames) =>
        \/ tpath = "absent"
        \/ tpath = "file" /\ cleanupDenied
        \/ tpath = "dir" /\ bodyLeft = "dir"

\* A body wrote a file at the path and raised; the file is gone.
C8_Witness ==
    /\ BlockExited
    /\ helper = "file.temporary_filename"
    /\ bodyLeft = "file"
    /\ texc = "BodyError"
    /\ tpath = "absent"

\* C9: a permission error raised while a temporary helper removes its file
\* during cleanup is logged and not propagated: the with-block does not
\* raise it, on the normal and on the exceptional exit path.  Stated for
\* temporary_filename.
C9_PermissionErrorLogged ==
    (BlockExited /\ cleanupDenied /\ helper \in TemporaryFilenames) =>
        /\ texc # "PermissionError"
        /\ tlog # <<>>

---------------------------------------------------------------------------
(* validation.py: validate_int and validate_float on a string.  A string   *)
(* is the sequence of its characters; a float is held exactly, as a whole  *)
(* number of units of 10^-MaxStrLen.                                       *)

Chars == {"1", "2", "-", ".", "a"}
Strings == SeqsUpTo(Chars, MaxStrLen)

IsDigit(c) == c \in {"1", "2"}
DigitValue(c) == IF c = "1" THEN 1 ELSE 2

RECURSIVE DigitsValue(_)
DigitsValue(ds) ==
    IF ds = <<>> THEN 0
    ELSE DigitsValue(SubSeq(ds, 1, Len(ds) - 1)) * 10 + DigitValue(ds[Len(ds)])

RECURSIVE Pow10(_)
Pow10(n) == IF n = 0 THEN 1 ELSE 10 * Pow10(n - 1)

IsNegative(s) == s # <<>> /\ s[1] = "-"
Unsigned(s) == IF IsNegative(s) THEN Tail(s) ELSE s
Signed(s, n) == IF IsNegative(s) THEN 0 - n ELSE n

\* int(value) succeeds: an optional sign and at least one digit
IsIntLiteral(s) ==
    /\ Unsigned(s) # <<>>
    /\ \A i \in 1..Len(Unsigned(s)) : IsDigit(Unsigned(s)[i])

\* int(value)
IntOf(s) == Signed(s, DigitsValue(Unsigned(s)))

DotsOf(u) == {i \in 1..Len(u) : u[i] = "."}

\* float(value) succeeds: an optional sign, digits with at most one point
\* among them, and at least one digit
IsFloatLiteral(s) ==
    LET u == Unsigned(s)
    IN  /\ Cardinality(DotsOf(u)) <= 1
        /\ \A i \in 1..Len(u) : IsDigit(u[i]) \/ u[i] = "."
        /\ \E i \in 1..Len(u) : IsDigit(u[i])

FloatUnit == Pow10(MaxStrLen)

\* float(n) of a whole number n
FloatOfInt(n) == n * FloatUnit

\* float(value)
FloatOf(s) ==
    LET u == Unsigned(s)
        d == IF DotsOf(u) = {} THEN Len(u) + 1 ELSE CHOOSE i \in DotsOf(u) : TRUE
        whole == SubSeq(u, 1, d - 1)
        frac == SubSeq(u, d + 1, Len(u))
    IN  Signed(s, DigitsValue(whole) * FloatUnit
                  + DigitsValue(frac) * Pow10(MaxStrLen - Len(frac)))

\* What a call did: the value returned, or the exception raised with the
\* words of its message and the numbers formatted into it.
Returns(v) ==
    [kind |-> "returned", value |-> <<v>>, message |-> <<>>, args |-> <<>>]
RaisesWith(kind, message, args) ==
    [kind |-> kind, value |-> <<>>, message |-> message, args |-> args]
Raises(kind, message) == RaisesWith(kind, message, <<>>)

\* validation.py 120, 223: "min_value must be greater than max_value"
ConflictMessage == <<"min_value", "must", "be", "greater", "than", "max_value">>

\* validation.py 125, 228: f"'{value}' is of type '{type(value)}', not int"
NotCastMessage(type) ==
    <<"'{value}'", "is", "of", "type", "'{type(value)}',", "not", type>>

\* validation.py 128, 231
TooSmallMessage ==
    <<"{value}", "is", "less", "than", "minimum", "value", "of", "{min_value}">>

\* validation.py 130, 233
TooLargeMessage ==
    <<"{value}", "is", "greater", "than", "maximum", "value", "of", "{max_value}">>

\* validation.py 235
NotChoiceMessage == <<"{value}", "is", "not", "one", "of", "{choices}">>

\* validation.py 119, 222: min_value is not None and max_value is not None
\* and (min_value >= max_value)
BoundsConflict(mn, mx) == mn # <<>> /\ mx # <<>> /\ mn[1] >= mx[1]

\* A slip the claims must notice: the value coerced before the bounds are
\* compared.
validate_int_CoerceFirst(v, mn, mx, ch) ==
    IF ~IsIntLiteral(v) THEN Raises("TypeError", NotCastMessage("int"))
    ELSE IF BoundsConflict(mn, mx)
         THEN Raises("ArgumentConflictError", ConflictMessage)
    ELSE Returns(IntOf(v))

\* validation.py 201-237
validate_int(v, mn, mx, ch) ==
    IF BoundsConflict(mn, mx) THEN Raises("ArgumentConflictError", ConflictMessage)
    ELSE IF ~IsIntLiteral(v) THEN Raises("TypeError", NotCastMessage("int"))
    ELSE IF mn # <<>> /\ IntOf(v) < mn[1] THEN Raises("ValueError", TooSmallMessage)
    ELSE IF mx # <<>> /\ IntOf(v) > mx[1] THEN Raises("ValueError", TooLargeMessage)
    ELSE IF ch # <<>> /\ IntOf(v) \notin ch[1] THEN Raises("ValueError", NotChoiceMessage)
    ELSE Returns(IntOf(v))

\* validation.py 103-132
validate_float(v, mn, mx) ==
    IF BoundsConflict(mn, mx) THEN Raises("ArgumentConflictError", ConflictMessage)
    ELSE IF ~IsFloatLiteral(v) THEN Raises("TypeError", NotCastMessage("float"))
    ELSE IF mn # <<>> /\ FloatOf(v) < FloatOfInt(mn[1])
         THEN Raises("ValueError", TooSmallMessage)
    ELSE IF mx # <<>> /\ FloatOf(v) > FloatOfInt(mx[1])
         THEN Raises("ValueError", TooLargeMessage)
    ELSE Returns(FloatOf(v))

\* validation.py 273-277: f"'{validated_values}' is of length
\* {len(validated_values)}, not '{min_value}'"
LengthMessage ==
    <<"'{validated_values}'", "is", "of", "length", "{len(validated_values)}",
      "not", "'{min_value}'">>

\* validation.py 264-267: a value without len() is wrapped in a list
AsList(vs) == IF vs.sized THEN vs.items ELSE <<vs.items[1]>>

\* validation.py 240-279
validate_ints(vs, len, mn, mx, ch) ==
    IF BoundsConflict(mn, mx) THEN Raises("ArgumentConflictError", ConflictMessage)
    ELSE LET list == AsList(vs)
             each == [i \in 1..Len(list) |-> validate_int(list[i], mn, mx, ch)]
             failed == {i \in 1..Len(list) : each[i].kind # "returned"}
             validated_values == [i \in 1..Len(list) |-> IntOf(list[i])]
         IN  IF failed # {}
             THEN each[CHOOSE i \in failed : \A j \in failed : i <= j]
             ELSE IF len # <<>> /\ Len(validated_values) # len[1]
             THEN RaisesWith("ValueError", LengthMessage,
                             <<<<Len(validated_values)>>, mn>>)
             ELSE Returns(validated_values)

\* Strings with letters in both cases, for validate_str
CasedChars == {"a", "A", "b", "B"}
CasedStrings == SeqsUpTo(CasedChars, MaxOptLen)

LowerChar(c) == IF c = "A" THEN "a" ELSE IF c = "B" THEN "b" ELSE c

\* A slip the claims must notice: the case kept.
Lower_CaseKept(s) == s

\* str.lower()
Lower(s) == [i \in 1..Len(s) |-> LowerChar(s[i])]

\* validation.py 374-382: the dictionary the loop builds; of two options
\* with the same lower-case form the later one stays
CaseInsensitiveOptions(opts) ==
    [k \in {Lower(opts[i]) : i \in 1..Len(opts)} |->
        opts[CHOOSE i \in 1..Len(opts) :
                 /\ Lower(opts[i]) = k
                 /\ \A j \in 1..Len(opts) : Lower(opts[j]) = k => j <= i]]

\* validation.py 391-393
NotOptionMessage ==
    <<"'{value}'", "is", "not", "one", "of", "options",
      "'{case_insensitive_options.keys()}'">>

\* validation.py 361-395
validate_str(v, opts) ==
    LET case_insensitive_options == CaseInsensitiveOptions(opts)
    IN  IF Lower(v) \notin DOMAIN case_insensitive_options
        THEN Raises("ValueError", NotOptionMessage)
        ELSE Returns(case_insensitive_options[Lower(v)])

OptionalBound == {<<>>} \cup {<<n>> : n \in 0..MaxBound}
OptionalLength == {<<>>} \cup {<<n>> : n \in 0..MaxValues}

\* What validate_ints is given: a list of strings, or one value that has no
\* len() (an int object, held as its decimal text)
Collections ==
    {[sized |-> TRUE, items |-> l] :
        l \in SeqsUpTo(SeqsUpTo(Chars, MaxElemLen), MaxValues)}
    \cup {[sized |-> FALSE, items |-> <<s>>] :
             s \in {t \in SeqsUpTo(Chars, MaxElemLen) : IsIntLiteral(t)}}
OptionalChoices == {<<>>} \cup {<<c>> : c \in SUBSET (0..MaxBound)}

InitValidate ==
    /\ \/ /\ validator \in {"validate_int", "validate_float"}
          /\ value \in Strings
          /\ min_value \in OptionalBound
          /\ max_value \in OptionalBound
          /\ choices \in (IF validator = "validate_int"
                          THEN OptionalChoices ELSE {<<>>})
          /\ values = NoValues
          /\ length = <<>>
          /\ options = <<>>
       \/ /\ validator = "validate_ints"
          /\ value = <<>>
          /\ min_value \in OptionalBound
          /\ max_value \in OptionalBound
          /\ choices \in OptionalChoices
          /\ values \in Collections
          /\ length \in OptionalLength
          /\ options = <<>>
       \/ /\ validator = "validate_str"
          /\ value \in CasedStrings
          /\ min_value = <<>>
          /\ max_value = <<>>
          /\ choices = <<>>
          /\ values = NoValues
          /\ length = <<>>
          /\ options \in SeqsUpTo(CasedStrings, MaxOptions)
    /\ result = <<>>
    /\ RunIdle
    /\ EnumIdle
    /\ WrapIdle
    /\ ParserIdle
    /\ LogIdle
    /\ PathIdle
    /\ CliIdle
    /\ GroupsIdle
    /\ FsIdle
    /\ TmpIdle

Validate_Int ==
    /\ validator = "validate_int"
    /\ result = <<>>
    /\ result' = <<validate_int(value, min_value, max_value, choices)>>
    /\ UNCHANGED <<validator, value, min_value, max_value, choices, values,
                   length, options>>
    /\ UNCHANGED nonValVars

Validate_Float ==
    /\ validator = "validate_float"
    /\ result = <<>>
    /\ result' = <<validate_float(value, min_value, max_value)>>
    /\ UNCHANGED <<validator, value, min_value, max_value, choices, values,
                   length, options>>
    /\ UNCHANGED nonValVars

Validate_Ints ==
    /\ validator = "validate_ints"
    /\ result = <<>>
    /\ result' = <<validate_ints(values, length, min_value, max_value, choices)>>
    /\ UNCHANGED <<validator, value, min_value, max_value, choices, values,
                   length, options>>
    /\ UNCHANGED nonValVars

Validate_Str ==
    /\ validator = "validate_str"
    /\ result = <<>>
    /\ result' = <<validate_str(value, options)>>
    /\ UNCHANGED <<validator, value, min_value, max_value, choices, values,
                   length, options>>
    /\ UNCHANGED nonValVars

NextValidate ==
    \/ Validate_Int
    \/ Validate_Float
    \/ Validate_Ints
    \/ Validate_Str

SpecValidate == InitValidate /\ [][NextValidate]_vars

---------------------------------------------------------------------------
(* Claims about the validators                                             *)

ContainsPhrase(words, phrase) ==
    \E i \in 1..(Len(words) - Len(phrase) + 1) :
        SubSeq(words, i, i + Len(phrase) - 1) = phrase

TypeName == IF validator = "validate_int" THEN "int" ELSE "float"

Called_Val(name) == validator = name /\ result # <<>>

Given(bound) == bound # <<>>

\* The constraints a returned int must satisfy.
SatisfiesAll(n, mn, mx, ch) ==
    /\ Given(mn) => mn[1] <= n
    /\ Given(mx) => n <= mx[1]
    /\ Given(ch) => n \in ch[1]

\* C11: for a string that is the decimal text of an integer n and consistent
\* constraints (min_value not above max_value), validate_int returns n
\* exactly when n satisfies every constraint given, and otherwise raises
\* ValueError and returns nothing.
C11_IntReturnedIffAllowed ==
    (/\ Called_Val("validate_int")
     /\ IsIntLiteral(value)
     /\ (Given(min_value) /\ Given(max_value)) => min_value[1] <= max_value[1]) =>
        IF SatisfiesAll(IntOf(value), min_value, max_value, choices)
        THEN result[1].kind = "returned" /\ result[1].value = <<IntOf(value)>>
        ELSE result[1].kind = "ValueError" /\ result[1].value = <<>>

\* The same with min_value strictly below max_value, where validate_int
\* finds no conflict.
C11_StrictBounds ==
    (/\ Called_Val("validate_int")
     /\ IsIntLiteral(value)
     /\ (Given(min_value) /\ Given(max_value)) => min_value[1] < max_value[1]) =>
        IF SatisfiesAll(IntOf(value), min_value, max_value, choices)
        THEN result[1].kind = "returned" /\ result[1].value = <<IntOf(value)>>
        ELSE result[1].kind = "ValueError" /\ result[1].value = <<>>

NumericValidators == {"validate_int", "validate_float", "validate_ints"}

\* C12: validate_int, validate_float and validate_ints reject conflicting
\* bounds before coercing the value: with min_value greater than max_value
\* they raise ArgumentConflictError whatever the value, also for a value
\* that cannot be cast and, for validate_ints, a collection of the wrong
\* length.
C12_ConflictBeforeCoercion ==
    (/\ result # <<>>
     /\ validator \in NumericValidators
     /\ Given(min_value) /\ Given(max_value)
     /\ min_value[1] > max_value[1]) =>
        result[1].kind = "ArgumentConflictError"

\* validate_ints, given conflicting bounds with a collection of the wrong
\* length holding a value that cannot be cast, raised ArgumentConflictError.
C12_Witness ==
    /\ Called_Val("validate_ints")
    /\ min_value = <<2>> /\ max_value = <<1>>
    /\ values = [sized |-> TRUE, items |-> <<<<"a">>>>]
    /\ length = <<2>>
    /\ result[1].kind = "ArgumentConflictError"

\* validate_int given conflicting bounds and a value that cannot be cast.
C12_WitnessInt ==
    /\ Called_Val("validate_int")
    /\ min_value = <<2>> /\ max_value = <<0>>
    /\ ~IsIntLiteral(value)
    /\ result[1].kind = "ArgumentConflictError"

\* C13: validate_int, validate_float and validate_ints raise
\* ArgumentConflictError if and only if both bounds are given and min_value
\* is greater than max_value; with min_value equal to max_value there is no
\* conflict.
C13_ConflictIffMinAboveMax ==
    (result # <<>> /\ validator \in NumericValidators) =>
        (result[1].kind = "ArgumentConflictError"
            <=> (/\ Given(min_value) /\ Given(max_value)
                 /\ min_value[1] > max_value[1]))

\* C14: validate_ints called with a length on a collection of another
\* length raises ValueError whose message reports the observed length and
\* the expected length, the value of the length argument.
\* Stated for collections whose every element is an allowed int, under
\* bounds that do not conflict on any reading (min_value below max_value).
C14_LengthMessage ==
    (/\ Called_Val("validate_ints")
     /\ Given(length)
     /\ Len(AsList(values)) # length[1]
     /\ (Given(min_value) /\ Given(max_value)) => min_value[1] < max_value[1]
     /\ \A i \in 1..Len(AsList(values)) :
            /\ IsIntLiteral(AsList(values)[i])
            /\ SatisfiesAll(IntOf(AsList(values)[i]), min_value, max_value,
                            choices)) =>
        /\ result[1].kind = "ValueError"
        /\ result[1].args = <<<<Len(AsList(values))>>, length>>

SameLetter(c, d) == c = d \/ {c, d} = {"a", "A"} \/ {c, d} = {"b", "B"}

EqualIgnoringCase(x, y) ==
    /\ Len(x) = Len(y)
    /\ \A i \in 1..Len(x) : SameLetter(x[i], y[i])

\* C15: validate_str matches case-insensitively and returns the option in
\* its original casing: if some option equals the value when case is
\* ignored, the result is a member of options that equals the value ignoring
\* case; if no option matches, it raises ValueError.
C15_CaseInsensitiveOriginalCasing ==
    Called_Val("validate_str") =>
        LET matching == {i \in 1..Len(options) : EqualIgnoringCase(options[i], value)}
        IN  IF matching # {}
            THEN /\ result[1].kind = "returned"
                 /\ \E i \in matching : result[1].value = <<options[i]>>
            ELSE result[1].kind = "ValueError"

\* Given 'ab' with the options 'b' and 'Ab', validate_str returned 'Ab'.
C15_Witness ==
    /\ Called_Val("validate_str")
    /\ value = <<"a", "b">>
    /\ options = <<<<"b">>, <<"A", "b">>>>
    /\ result[1].kind = "returned"
    /\ result[1].value = <<<<"A", "b">>>>


---------------------------------------------------------------------------
(* validation.py: validate_input_path and validate_output_path.  A path is *)
(* the sequence of its pieces: the separator "/", the user-home reference  *)
(* "~", the variable reference "$HOME" and letters of names.  The paths    *)
(* given hold no "." or ".." component.                                    *)

Sep == "/"
HomeRef == "~"
VarRef == "$HOME"
NamePieces == {"a"}
PathPieces == {Sep, HomeRef, VarRef} \cup NamePieces
Paths == SeqsUpTo(PathPieces, MaxPathLen)

\* The environment of the process: HOME=/home, and the directory it runs in
HomeDir == <<"/", "home">>
Cwd == <<"/", "w">>

\* os.path.expandvars: a reference to a variable that is set is replaced by
\* its value; "$HOME" directly followed by a letter names another variable,
\* which is not set, and stays as it is
RECURSIVE expandvars(_)
expandvars(path) ==
    IF path = <<>> THEN <<>>
    ELSE (IF Head(path) = VarRef /\ ~(Len(path) > 1 /\ path[2] \in NamePieces)
          THEN HomeDir ELSE <<Head(path)>>) \o expandvars(Tail(path))

\* os.path.isabs
isabs(path) == path # <<>> /\ path[1] = Sep

\* os.path.join(a, b)
join(a, b) ==
    IF isabs(b) THEN b
    ELSE IF a = <<>> \/ a[Len(a)] = Sep THEN a \o b
    ELSE a \o <<Sep>> \o b

FirstSep(path) ==
    IF \E i \in 1..Len(path) : path[i] = Sep
    THEN CHOOSE i \in 1..Len(path) :
             path[i] = Sep /\ \A j \in 1..(i - 1) : path[j] # Sep
    ELSE Len(path) + 1

LastSep(path) ==
    IF \E i \in 1..Len(path) : path[i] = Sep
    THEN CHOOSE i \in 1..Len(path) :
             path[i] = Sep /\ \A j \in (i + 1)..Len(path) : path[j] # Sep
    ELSE 0

\* path.split("/") without the empty components
RECURSIVE Split(_)
Split(path) ==
    IF path = <<>> THEN <<>>
    ELSE LET k == FirstSep(path)
             comp == SubSeq(path, 1, k - 1)
         IN  (IF comp = <<>> THEN <<>> ELSE <<comp>>)
                 \o Split(SubSeq(path, k + 1, Len(path)))

\* "/".join(comps)
RECURSIVE JoinSep(_)
JoinSep(comps) ==
    IF comps = <<>> THEN <<>>
    ELSE IF Len(comps) = 1 THEN comps[1]
    ELSE comps[1] \o <<Sep>> \o JoinSep(Tail(comps))

\* posixpath.normpath keeps exactly two leading slashes, and one of any
\* other number
InitialSlashes(path) ==
    IF ~isabs(path) THEN 0
    ELSE IF Len(path) >= 2 /\ path[2] = Sep /\ ~(Len(path) >= 3 /\ path[3] = Sep)
    THEN 2
    ELSE 1

\* os.path.normpath
normpath(path) ==
    LET normal == [i \in 1..InitialSlashes(path) |-> Sep] \o JoinSep(Split(path))
    IN  IF normal = <<>> THEN <<".">> ELSE normal

RECURSIVE RStripSep(_)
RStripSep(path) ==
    IF path # <<>> /\ path[Len(path)] = Sep
    THEN RStripSep(SubSeq(path, 1, Len(path) - 1))
    ELSE path

\* os.path.dirname
dirname(path) ==
    LET head == SubSeq(path, 1, LastSep(path))
    IN  IF head # <<>> /\ \E i \in 1..Len(head) : head[i] # Sep
        THEN RStripSep(head)
        ELSE head

\* The entry of the disk a path names: relative paths start from the
\* working directory, and any number of leading slashes is the root.
Resolve(path) ==
    <<Sep>> \o JoinSep(Split(IF isabs(path) THEN path ELSE Cwd \o <<Sep>> \o path))

\* os.path.exists, isfile, isdir
exists(d, path) == path # <<>> /\ Resolve(path) \in DOMAIN d
isfile(d, path) == exists(d, path) /\ d[Resolve(path)] = "file"
isdir(d, path) == exists(d, path) /\ d[Resolve(path)] = "dir"

\* The path itself and the directories above it, from the root down
Lineage(path) ==
    LET comps == Split(Resolve(path))
    IN  [k \in 1..(Len(comps) + 1) |-> <<Sep>> \o JoinSep(SubSeq(comps, 1, k - 1))]


\* A slip the claims must notice: nothing made.
makedirs_Nothing(d, path, may) == [error |-> "none", disk |-> d]

\* os.makedirs(path): the missing directories above the path and the path
\* itself are made; <<the exception raised if any, the disk afterwards>>
makedirs(d, path, may) ==
    LET lineage == Lineage(path)
        target == lineage[Len(lineage)]
    IN  IF \E k \in 1..(Len(lineage) - 1) :
               lineage[k] \in DOMAIN d /\ d[lineage[k]] = "file"
        THEN [error |-> "NotADirectoryError", disk |-> d]
        ELSE IF target \in DOMAIN d
        THEN [error |-> "FileExistsError", disk |-> d]
        ELSE IF ~may
        THEN [error |-> "PermissionError", disk |-> d]
        ELSE [error |-> "none",
              disk |-> [q \in DOMAIN d \cup {lineage[k] : k \in 1..Len(lineage)} |->
                           IF q \in DOMAIN d THEN d[q] ELSE "dir"]]

NotMade(d) == [error |-> "none", disk |-> d]

DoesNotExistMessage == <<"'{value}'", "does", "not", "exist">>
NotAFileMessage == <<"'{value}'", "is", "not", "a", "file">>
NotADirectoryMessage == <<"'{value}'", "is", "not", "a", "directory">>
NotAFileOrDirectoryMessage ==
    <<"'{value}'", "is", "not", "a", "file", "or", "directory">>
CannotBeReadMessage == <<"'{value}'", "cannot", "be", "read">>
CannotBeWrittenMessage == <<"'{value}'", "cannot", "be", "written">>
BothProhibitedMessage ==
    <<"both", "file", "and", "directory", "paths", "may", "not", "be",
      "prohibited">>
CreationProhibitedMessage ==
    <<"may", "not", "prohibit", "directory", "paths", "and", "enable",
      "directory", "creation">>

\* What a call of a path validator did: its outcome and the disk it leaves
Did(outcome_, d) == [outcome |-> outcome_, disk |-> d]

\* validation.py 177-180, 332-335: the value expanded and made absolute
Absolute(v, dd) ==
    LET default == IF dd = <<>> THEN Cwd ELSE dd[1]
        expanded == expandvars(v)
    IN  normpath(IF ~isabs(expanded) THEN join(default, expanded) ELSE expanded)

\* validation.py 135-198
validate_input_path(v, fok, dok, dd, cd, d, may) ==
    IF ~fok /\ ~dok
    THEN Did(Raises("ArgumentConflictError", BothProhibitedMessage), d)
    ELSE
    LET path == Absolute(v, dd)
        missing == ~exists(d, path)
        creation == IF missing /\ dok /\ cd THEN makedirs(d, path, may)
                    ELSE NotMade(d)
        now == creation.disk
    IN  IF creation.error # "none"
        THEN Did(Raises(creation.error, <<>>), d)
        ELSE IF missing /\ ~(dok /\ cd)
        THEN Did(Raises(IF ~fok /\ dok THEN "DirectoryNotFoundError"
                        ELSE "FileNotFoundError", DoesNotExistMessage), d)
        ELSE IF fok /\ ~dok /\ ~isfile(now, path)
        THEN Did(Raises("NotAFileError", NotAFileMessage), now)
        ELSE IF ~fok /\ dok /\ ~isdir(now, path)
        THEN Did(Raises("NotADirectoryError", NotADirectoryMessage), now)
        ELSE IF ~isfile(now, path) /\ ~isdir(now, path)
        THEN Did(Raises("NotAFileOrDirectoryError", NotAFileOrDirectoryMessage), now)
        ELSE IF ~may
        THEN Did(Raises("PermissionError", CannotBeReadMessage), now)
        ELSE Did(Returns(path), now)

\* validation.py 282-358
validate_output_path(v, fok, dok, dd, cd, d, may) ==
    IF ~fok /\ ~dok
    THEN Did(Raises("ArgumentConflictError", BothProhibitedMessage), d)
    ELSE IF ~dok /\ cd
    THEN Did(Raises("ArgumentConflictError", CreationProhibitedMessage), d)
    ELSE
    LET path == Absolute(v, dd)
        directory == dirname(path)
    IN  IF exists(d, path)
        THEN IF fok /\ ~dok /\ ~isfile(d, path)
             THEN Did(Raises("NotAFileError", NotAFileMessage), d)
             ELSE IF ~fok /\ dok /\ ~isdir(d, path)
             THEN Did(Raises("NotADirectoryError", NotADirectoryMessage), d)
             ELSE IF ~isfile(d, path) /\ ~isdir(d, path)
             THEN Did(Raises("NotAFileOrDirectoryError",
                             NotAFileOrDirectoryMessage), d)
             ELSE IF ~may
             THEN Did(Raises("PermissionError", CannotBeWrittenMessage), d)
             ELSE Did(Returns(path), d)
        ELSE IF cd
        THEN LET creation == makedirs(d, path, may)
             IN  IF creation.error # "none"
                 THEN Did(Raises(creation.error, <<>>), d)
                 ELSE Did(Returns(path), creation.disk)
        ELSE IF ~exists(d, directory)
        THEN Did(Raises("DirectoryNotFoundError", DoesNotExistMessage), d)
        ELSE IF ~isdir(d, directory)
        THEN Did(Raises("NotADirectoryError", NotADirectoryMessage), d)
        ELSE IF ~may
        THEN Did(Raises("PermissionError", CannotBeWrittenMessage), d)
        ELSE Did(Returns(path), d)

\* The disk before a call: the root, the working directory and the home
\* directory, and under the working directory possibly an entry 'a' and an
\* entry '~', each a file or a directory.
Entries == {"absent", "file", "dir"}
Disk(a, tilde) ==
    LET always == {<<Sep>>, Cwd, HomeDir}
        pa == Cwd \o <<Sep, "a">>
        pt == Cwd \o <<Sep, HomeRef>>
    IN  [q \in always \cup (IF a = "absent" THEN {} ELSE {pa})
                      \cup (IF tilde = "absent" THEN {} ELSE {pt}) |->
            IF q = pa THEN a ELSE IF q = pt THEN tilde ELSE "dir"]

\* default_directory: None, an absolute directory, or a relative one
DefaultDirectories == {<<>>, <<HomeDir>>, <<<<"a">>>>}

InitPath ==
    /\ pfn \in {"validate_input_path", "validate_output_path"}
    /\ pvalue \in Paths
    /\ file_ok \in BOOLEAN
    /\ directory_ok \in BOOLEAN
    /\ default_directory \in DefaultDirectories
    /\ create_directory \in BOOLEAN
    /\ \E a \in Entries, tilde \in Entries : disk = Disk(a, tilde)
    /\ permitted \in BOOLEAN
    /\ presult = <<>>
    /\ RunIdle
    /\ EnumIdle
    /\ WrapIdle
    /\ ParserIdle
    /\ LogIdle
    /\ FsIdle
    /\ TmpIdle
    /\ ValIdle
    /\ CliIdle
    /\ GroupsIdle

PathCalled(did) ==
    /\ presult = <<>>
    /\ presult' = <<[outcome |-> did.outcome, before |-> disk]>>
    /\ disk' = did.disk
    /\ UNCHANGED <<pfn, pvalue, file_ok, directory_ok, default_directory,
                   create_directory, permitted>>
    /\ UNCHANGED nonPathVars

Validate_Input_Path ==
    /\ pfn = "validate_input_path"
    /\ PathCalled(validate_input_path(pvalue, file_ok, directory_ok,
                                      default_directory, create_directory,
                                      disk, permitted))

Validate_Output_Path ==
    /\ pfn = "validate_output_path"
    /\ PathCalled(validate_output_path(pvalue, file_ok, directory_ok,
                                       default_directory, create_directory,
                                       disk, permitted))

NextPath ==
    \/ Validate_Input_Path
    \/ Validate_Output_Path

SpecPath == InitPath /\ [][NextPath]_vars


---------------------------------------------------------------------------
(* Claims about the path validators                                        *)

PathReturned == presult # <<>> /\ presult[1].outcome.kind = "returned"

\* os.path.expanduser: a leading '~' that is a whole component becomes the
\* home directory
ExpandUser(path) ==
    IF path # <<>> /\ path[1] = HomeRef /\ (Len(path) = 1 \/ path[2] = Sep)
    THEN HomeDir \o Tail(path)
    ELSE path

\* The path the claim expects: references expanded, then resolved against
\* default_directory or the working directory.
ExpectedPath ==
    LET expanded == expandvars(ExpandUser(pvalue))
        default == IF default_directory = <<>> THEN Cwd ELSE default_directory[1]
    IN  normpath(IF isabs(expanded) THEN expanded ELSE join(default, expanded))

\* C16: every path validator returns an absolute path in which the
\* environment-variable references and a leading user-home reference ('~')
\* of the input have been expanded; a relative input is resolved against
\* default_directory (or the current working directory).  Stated for an
\* absolute default_directory, or none.
C16_AbsoluteAndExpanded ==
    (/\ PathReturned
     /\ default_directory = <<>> \/ isabs(default_directory[1])) =>
        /\ isabs(presult[1].outcome.value[1])
        /\ presult[1].outcome.value[1] = ExpectedPath

\* The same for inputs that do not begin with a user-home reference.
C16_WithoutHomeReference ==
    (/\ PathReturned
     /\ default_directory = <<>> \/ isabs(default_directory[1])
     /\ ExpandUser(pvalue) = pvalue) =>
        /\ isabs(presult[1].outcome.value[1])
        /\ presult[1].outcome.value[1] = ExpectedPath

\* The output path as the validator resolves it, and whether the directory
\* that is to hold it is missing with nothing but directories above it.
ParentMissing ==
    LET path == Absolute(pvalue, default_directory)
        before == presult[1].before
        lineage == Lineage(path)
    IN  /\ Len(lineage) > 1
        /\ lineage[Len(lineage) - 1] \notin DOMAIN before
        /\ \A k \in 1..Len(lineage) :
               lineage[k] \in DOMAIN before => before[lineage[k]] = "dir"

ParentsAreDirectories ==
    LET lineage == Lineage(Absolute(pvalue, default_directory))
    IN  \A k \in 1..(Len(lineage) - 1) :
            lineage[k] \in DOMAIN disk /\ disk[lineage[k]] = "dir"

\* C17: output path validation optionally creates missing parent
\* directories: when creation is requested for an output path whose parent
\* directories do not exist they are created and the path is returned, for
\* output file paths as well as output directory paths; when creation is not
\* requested nothing is created and DirectoryNotFoundError is raised.
C17_CreatesMissingParents ==
    (/\ pfn = "validate_output_path"
     /\ presult # <<>>
     /\ file_ok \/ directory_ok
     /\ permitted
     /\ ParentMissing) =>
        IF create_directory
        THEN /\ presult[1].outcome.kind = "returned"
             /\ presult[1].outcome.value = <<Absolute(pvalue, default_directory)>>
             /\ ParentsAreDirectories
        ELSE /\ presult[1].outcome.kind = "DirectoryNotFoundError"
             /\ disk = presult[1].before

\* C17 as the code has it: when creation is requested and directory paths
\* are allowed, an output path that does not exist is itself created as a
\* directory, together with its missing parent directories, and returned;
\* requesting creation while directory paths are prohibited (an output file
\* path) raises ArgumentConflictError and creates nothing; when creation is
\* not requested nothing is created and a missing parent raises
\* DirectoryNotFoundError.
C17_CreatesOutputDirectory ==
    (/\ pfn = "validate_output_path"
     /\ presult # <<>>
     /\ file_ok \/ directory_ok
     /\ permitted
     /\ ParentMissing) =>
        IF create_directory /\ directory_ok
        THEN /\ presult[1].outcome.kind = "returned"
             /\ presult[1].outcome.value = <<Absolute(pvalue, default_directory)>>
             /\ ParentsAreDirectories
             /\ isdir(disk, Absolute(pvalue, default_directory))
        ELSE IF create_directory
        THEN /\ presult[1].outcome.kind = "ArgumentConflictError"
             /\ disk = presult[1].before
        ELSE /\ presult[1].outcome.kind = "DirectoryNotFoundError"
             /\ disk = presult[1].before

\* validate_output_path, asked to create 'a/a' as a directory where 'a' did
\* not exist, made both directories and returned the path.
C17_Witness ==
    /\ pfn = "validate_output_path"
    /\ presult # <<>>
    /\ pvalue = <<"a", "/", "a">>
    /\ default_directory = <<>>
    /\ create_directory /\ directory_ok /\ ~file_ok
    /\ Cwd \o <<Sep, "a">> \notin DOMAIN presult[1].before
    /\ presult[1].outcome.kind = "returned"
    /\ isdir(disk, Cwd \o <<Sep, "a">>)
    /\ isdir(disk, Cwd \o <<Sep, "a", Sep, "a">>)


---------------------------------------------------------------------------
(* cltool.py, command_line_tool.py, command_line_interface.py: main of a   *)
(* tool, from the construction of its parser to the call of its handler.   *)

Tools == {"CLTool", "CommandLineTool", "CommandLineInterface"}

\* The flags on a command line, and how many times each counts: '-vv' is
\* '-v' twice
VerboseFlags == {"-v", "--verbose", "-vv"}
QuietFlags == {"-q", "--quiet"}
Flags == VerboseFlags \cup QuietFlags
Times(flag) == IF flag = "-vv" THEN 2 ELSE 1

\* default=1 of the 'count' action, const=0 of the 'store_const' action
VerboseDefault == 1
QuietConst == 0

\* logs.py 17-24, cltool.py 44-51
LevelOf(n) ==
    IF n <= 0 THEN "ERROR"
    ELSE IF n = 1 THEN "WARNING"
    ELSE IF n = 2 THEN "INFO"
    ELSE "DEBUG"

InitMain ==
    /\ tool \in Tools
    /\ argv \in SeqsUpTo(Flags, MaxArgs)
    /\ cpc = "main"
    /\ consumed = 0
    /\ verbosity = <<>>
    /\ seen = {}
    /\ level = <<>>
    /\ ran = <<>>
    /\ RunIdle
    /\ EnumIdle
    /\ WrapIdle
    /\ ParserIdle
    /\ LogIdle
    /\ FsIdle
    /\ TmpIdle
    /\ ValIdle
    /\ PathIdle
    /\ GroupsIdle

\* construct_argparser / argparser, then the start of parse_args: the
\* namespace gets the default of the first action with dest 'verbosity'
ParseArgs_Defaults ==
    /\ cpc = "main"
    /\ cpc' = "parse_args"
    /\ verbosity' = <<VerboseDefault>>
    /\ UNCHANGED <<tool, argv, consumed, seen, level, ran>>
    /\ UNCHANGED nonCliVars

\* A slip the claims must notice: the two flags never in conflict.
Conflicts_Never(action, others) == FALSE

\* add_mutually_exclusive_group: an action conflicts with the other action
\* of the group once that one was seen
Conflicts(action, others) == others \ {action} # {}

\* parse_args meets '-v', '--verbose' or '-vv'
ParseArgs_Verbose ==
    /\ cpc = "parse_args"
    /\ consumed < Len(argv)
    /\ argv[consumed + 1] \in VerboseFlags
    /\ IF Conflicts("verbose", seen)
       THEN /\ cpc' = "exit"
            /\ UNCHANGED <<consumed, verbosity, seen>>
       ELSE /\ verbosity' = <<verbosity[1] + Times(argv[consumed + 1])>>
            /\ seen' = seen \cup {"verbose"}
            /\ consumed' = consumed + 1
            /\ UNCHANGED cpc
    /\ UNCHANGED <<tool, argv, level, ran>>
    /\ UNCHANGED nonCliVars

\* parse_args meets '-q' or '--quiet'
ParseArgs_Quiet ==
    /\ cpc = "parse_args"
    /\ consumed < Len(argv)
    /\ argv[consumed + 1] \in QuietFlags
    /\ IF Conflicts("quiet", seen)
       THEN /\ cpc' = "exit"
            /\ UNCHANGED <<consumed, verbosity, seen>>
       ELSE /\ verbosity' = <<QuietConst>>
            /\ seen' = seen \cup {"quiet"}
            /\ consumed' = consumed + 1
            /\ UNCHANGED cpc
    /\ UNCHANGED <<tool, argv, level, ran>>
    /\ UNCHANGED nonCliVars

\* parse_args returns the namespace
ParseArgs_Return ==
    /\ cpc = "parse_args"
    /\ consumed = Len(argv)
    /\ cpc' = "parsed"
    /\ UNCHANGED <<tool, argv, consumed, verbosity, seen, level, ran>>
    /\ UNCHANGED nonCliVars

\* What the handler finds when it runs
Handler == [verbosity |-> verbosity, level |-> level]

\* command_line_interface.py 194: cls.execute(**kwargs)
CommandLineInterface_Execute ==
    /\ tool = "CommandLineInterface"
    /\ cpc = "parsed"
    /\ ran' = <<Handler>>
    /\ cpc' = "done"
    /\ UNCHANGED <<tool, argv, consumed, verbosity, seen, level>>
    /\ UNCHANGED nonCliVars

\* command_line_tool.py 113, 32-40: tool = cls(**kwargs)
CommandLineTool_Init ==
    /\ tool = "CommandLineTool"
    /\ cpc = "parsed"
    /\ level' = <<LevelOf(verbosity[1])>>
    /\ cpc' = "constructed"
    /\ UNCHANGED <<tool, argv, consumed, verbosity, seen, ran>>
    /\ UNCHANGED nonCliVars

\* command_line_tool.py 114: tool()
CommandLineTool_Call ==
    /\ tool = "CommandLineTool"
    /\ cpc = "constructed"
    /\ ran' = <<Handler>>
    /\ cpc' = "done"
    /\ UNCHANGED <<tool, argv, consumed, verbosity, seen, level>>
    /\ UNCHANGED nonCliVars

\* cltool.py 115, 41-51: tool = cls(**kwargs); basicConfig(level=...) in a
\* process whose root logger has no handler yet
CLTool_Init ==
    /\ tool = "CLTool"
    /\ cpc = "parsed"
    /\ level' = <<LevelOf(verbosity[1])>>
    /\ cpc' = "constructed"
    /\ UNCHANGED <<tool, argv, consumed, verbosity, seen, ran>>
    /\ UNCHANGED nonCliVars

\* cltool.py 116: tool()
CLTool_Call ==
    /\ tool = "CLTool"
    /\ cpc = "constructed"
    /\ ran' = <<Handler>>
    /\ cpc' = "done"
    /\ UNCHANGED <<tool, argv, consumed, verbosity, seen, level>>
    /\ UNCHANGED nonCliVars

NextMain ==
    \/ ParseArgs_Defaults
    \/ ParseArgs_Verbose
    \/ ParseArgs_Quiet
    \/ ParseArgs_Return
    \/ CommandLineInterface_Execute
    \/ CommandLineTool_Init
    \/ CommandLineTool_Call
    \/ CLTool_Init
    \/ CLTool_Call

SpecMain == InitMain /\ [][NextMain]_vars

---------------------------------------------------------------------------
(* Claims about main and the verbosity flags                               *)

Parsed == cpc \in {"parsed", "constructed", "done"}
Rejected == cpc = "exit"

GivenVerbose == \E i \in 1..Len(argv) : argv[i] \in VerboseFlags
GivenQuiet == \E i \in 1..Len(argv) : argv[i] \in QuietFlags

\* The number of times '-v' is given on the command line
RECURSIVE CountVerbose(_)
CountVerbose(args) ==
    IF args = <<>> THEN 0
    ELSE (IF Head(args) \in VerboseFlags THEN Times(Head(args)) ELSE 0)
             + CountVerbose(Tail(args))

\* C18: the verbosity flags form a mutually exclusive pair: parsing yields
\* verbosity 1 when neither flag is given, 1 + n when '-v' is given n times
\* and 0 when '-q' is given; a command line with both '-v' and '-q' is
\* rejected by the parser.  The same for the parsers of CLTool,
\* CommandLineTool and CommandLineInterface.
C18_VerbosityFlags ==
    /\ Parsed =>
           /\ ~(GivenVerbose /\ GivenQuiet)
           /\ verbosity = <<IF GivenQuiet THEN 0 ELSE 1 + CountVerbose(argv)>>
    /\ Rejected => GivenVerbose /\ GivenQuiet

\* '-v -vv' was parsed to verbosity 4.
C18_Witness ==
    /\ Parsed
    /\ argv = <<"-v", "-vv">>
    /\ verbosity = <<4>>

\* '-v -q' was rejected.
C18_WitnessRejected ==
    /\ Rejected
    /\ argv = <<"-v", "-q">>

\* C19: main runs in the order parse, set logging level, dispatch: in each
\* tool base class the logging level is set from the parsed verbosity before
\* the handler of the subclass is invoked, so the handler never runs without
\* the logging level having been set from the command line.
C19_LevelSetBeforeHandler ==
    ran # <<>> => ran[1].level = <<LevelOf(ran[1].verbosity[1])>>

\* The same for the two base classes whose constructor sets the level.
C19_ToolClasses ==
    (ran # <<>> /\ tool \in {"CLTool", "CommandLineTool"}) =>
        ran[1].level = <<LevelOf(ran[1].verbosity[1])>>


---------------------------------------------------------------------------
(* argument_parsing.py: get_arg_groups_by_name on a parser.  A group is    *)
(* [id, title]; ids tell apart groups with the same title.  A dictionary   *)
(* is the sequence of its items, in insertion order.                       *)

NoTitle == ""
UserTitles == {"a", "b", NoTitle}
GroupNames == {"a", "b", "options"}

\* ArgumentParser(): the two groups every parser starts with
DefaultGroups ==
    <<[id |-> 1, title |-> "positional arguments"],
      [id |-> 2, title |-> "options"]>>

\* optional_arguments_name, left at its default
optional_arguments_name == "optional arguments"

\* d[k] = v
DictSet(d, k, v) ==
    IF \E i \in 1..Len(d) : d[i].key = k
    THEN [i \in 1..Len(d) |-> IF d[i].key = k THEN [key |-> k, value |-> v]
                              ELSE d[i]]
    ELSE Append(d, [key |-> k, value |-> v])

DictHas(d, k) == \E i \in 1..Len(d) : d[i].key = k
DictGet(d, k) == d[CHOOSE i \in 1..Len(d) : d[i].key = k].value

\* d.values()
DictValues(d) == [i \in 1..Len(d) |-> d[i].value]

\* {**d, **e}
RECURSIVE DictMerge(_, _)
DictMerge(d, e) ==
    IF e = <<>> THEN d
    ELSE DictMerge(DictSet(d, e[1].key, e[1].value), Tail(e))

\* action_groups.pop(i)
Without(groups, i) ==
    [j \in 1..(Len(groups) - 1) |-> IF j < i THEN groups[j] ELSE groups[j + 1]]

\* argument_parsing.py 88-96: the loop over names; a group that is not
\* found is added to the parser and popped again
RECURSIVE SpecifiedGroups(_, _, _, _)
SpecifiedGroups(ns, groups, specified_groups, n) ==
    IF ns = <<>>
    THEN [groups |-> groups, specified |-> specified_groups, made |-> n]
    ELSE LET name == Head(ns)
             found == {i \in 1..Len(groups) : groups[i].title = name}
         IN  IF found # {}
             THEN LET i == CHOOSE i \in found : \A j \in found : i <= j
                  IN  SpecifiedGroups(Tail(ns), Without(groups, i),
                                      DictSet(specified_groups, name, groups[i]), n)
             ELSE SpecifiedGroups(Tail(ns), groups,
                                  DictSet(specified_groups, name,
                                          [id |-> n + 1, title |-> name]),
                                  n + 1)

\* argument_parsing.py 104: if ag.title
Kept(title) == title # NoTitle

\* argument_parsing.py 100-105: the groups left are popped from the end,
\* the default group of options is renamed, groups without a title are
\* dropped
RECURSIVE AdditionalGroups(_, _)
AdditionalGroups(groups, additional_groups) ==
    IF groups = <<>> THEN additional_groups
    ELSE LET popped == groups[Len(groups)]
             ag == IF popped.title \in {"options", "optional arguments"}
                   THEN [popped EXCEPT !.title = optional_arguments_name]
                   ELSE popped
         IN  AdditionalGroups(SubSeq(groups, 1, Len(groups) - 1),
                              IF Kept(ag.title)
                              THEN DictSet(additional_groups, ag.title, ag)
                              ELSE additional_groups)

\* argument_parsing.py 62-110
get_arg_groups_by_name(groups, ns, n) ==
    LET loop == SpecifiedGroups(ns, groups, <<>>, n)
        additional_groups == AdditionalGroups(loop.groups, <<>>)
    IN  [action_groups |-> DictValues(loop.specified) \o DictValues(additional_groups),
         made |-> loop.made,
         returned |-> DictMerge(loop.specified, additional_groups)]

InitGroups ==
    /\ action_groups = DefaultGroups
    /\ made = Len(DefaultGroups)
    /\ names = <<>>
    /\ returned = <<>>
    /\ RunIdle
    /\ EnumIdle
    /\ WrapIdle
    /\ ParserIdle
    /\ LogIdle
    /\ FsIdle
    /\ TmpIdle
    /\ ValIdle
    /\ PathIdle
    /\ CliIdle

\* parser.add_argument_group(title), before the call
AddArgumentGroup(title) ==
    /\ returned = <<>>
    /\ made < Len(DefaultGroups) + MaxGroups
    /\ made' = made + 1
    /\ action_groups' = Append(action_groups, [id |-> made + 1, title |-> title])
    /\ UNCHANGED <<names, returned>>
    /\ UNCHANGED nonGroupVars

GetArgGroupsByName(ns) ==
    /\ returned = <<>>
    /\ LET call == get_arg_groups_by_name(action_groups, ns, made)
       IN  /\ action_groups' = call.action_groups
           /\ made' = call.made
           /\ returned' = <<[dict |-> call.returned, before |-> action_groups]>>
    /\ names' = ns
    /\ UNCHANGED nonGroupVars

NextGroups ==
    \/ \E title \in UserTitles : AddArgumentGroup(title)
    \/ \E ns \in SeqsUpTo(GroupNames, MaxNames) : GetArgGroupsByName(ns)

SpecGroups == InitGroups /\ [][NextGroups]_vars

---------------------------------------------------------------------------
(* Claims about get_arg_groups_by_name                                     *)

NamesOnce == \A i, j \in 1..Len(names) : names[i] = names[j] => i = j

\* The parser's groups begin with the groups named, in the order given.
BeginWithNamed ==
    /\ Len(action_groups) >= Len(names)
    /\ \A i \in 1..Len(names) : action_groups[i].title = names[i]

\* A group that existed under a name given is the group now under it.
NamedAreKept ==
    \A i \in 1..Len(names) :
        (\E k \in 1..Len(returned[1].before) : returned[1].before[k].title = names[i])
            => \E k \in 1..Len(returned[1].before) :
                   /\ returned[1].before[k].title = names[i]
                   /\ returned[1].before[k].id = action_groups[i].id

\* Every group not named follows them.
OthersFollow ==
    \A k \in 1..Len(returned[1].before) :
        (\A i \in 1..Len(names) : returned[1].before[k].title # names[i])
            => \E j \in (Len(names) + 1)..Len(action_groups) :
                   action_groups[j].id = returned[1].before[k].id

\* The dictionary maps each name given to the parser's group of that title.
DictOfNamed ==
    \A i \in 1..Len(names) :
        /\ DictHas(returned[1].dict, names[i])
        /\ DictGet(returned[1].dict, names[i]) = action_groups[i]

\* C20: after get_arg_groups_by_name(parser, *names) the parser's groups
\* begin with the groups named in names, in the order the names were given
\* (each created if it did not exist), followed by every group not named,
\* and the dictionary returned maps each name in names to the parser's
\* group with that title.  Stated for names given once each.
C20_NamedFirstOthersFollow ==
    (returned # <<>> /\ NamesOnce) =>
        /\ BeginWithNamed
        /\ NamedAreKept
        /\ OthersFollow
        /\ DictOfNamed

\* The same for a parser whose groups not named all have a title, each
\* its own.
C20_TitledOthers ==
    (/\ returned # <<>>
     /\ NamesOnce
     /\ \A k, l \in 1..Len(returned[1].before) :
            /\ returned[1].before[k].title # NoTitle
            /\ returned[1].before[k].title = returned[1].before[l].title => k = l) =>
        /\ BeginWithNamed
        /\ NamedAreKept
        /\ OthersFollow
        /\ DictOfNamed

---------------------------------------------------------------------------
(* Claims about temp_file                                                  *)

\* C21: temp_file yields the path of a temporary file that does not exist
\* on disk when the block is entered, the body runs with that path, and
\* after the block exits (normally or through an exception) no file exists
\* at that path.  Stated for the runs in which the operating system refuses
\* no removal: the block exits with no error but the body's, and nothing
\* at the path.
C21_TempFileGone ==
    (BlockExited /\ helper = "file.temp_file" /\ ~cleanupDenied) =>
        /\ tpath = "absent"
        /\ texc \in {"none", "BodyError"}

---------------------------------------------------------------------------
(* logs.py, logging.py, cltool.py: the root logger.  One process, in which *)
(* logging may have been configured already, makes calls of                *)
(* set_logging_verbosity and constructs CLTool objects.                    *)

Levels == {"ERROR", "WARNING", "INFO", "DEBUG"}
Verbosities == -1..MaxVerbosity

\* The root logger as the calls see it
RootLogger == [handlers |-> rootHandlers, level |-> rootLevel]

\* logging.basicConfig(level=...): does nothing when the root logger has a
\* handler already; otherwise adds one and, given a level, sets it.  The
\* level is <<>> when none is given.
basicConfig(lg, lvl) ==
    IF lg.handlers
    THEN lg
    ELSE [handlers |-> TRUE,
          level |-> IF lvl = <<>> THEN lg.level ELSE lvl[1]]

\* Logger.setLevel
setLevel(lg, lvl) == [lg EXCEPT !.level = lvl]

\* A slip the claims must notice: the level given to basicConfig only.
set_logging_verbosity_SetOnce(v, lg) == basicConfig(lg, <<LevelOf(v)>>)

\* logs.py 10-24, logging.py 9-23
set_logging_verbosity(v, lg) == setLevel(basicConfig(lg, <<>>), LevelOf(v))

\* cltool.py 43-51: validate_int(verbosity, min_value=0) raises ValueError
\* below 0; then basicConfig(level=...)
CLTool_init(v, lg) ==
    IF v < 0
    THEN [raised |-> "ValueError", logger |-> lg]
    ELSE [raised |-> "none", logger |-> basicConfig(lg, <<LevelOf(v)>>)]

InitLogging ==
    /\ rootHandlers \in BOOLEAN
    /\ rootLevel \in Levels
    /\ logcalls = <<>>
    /\ RunIdle
    /\ EnumIdle
    /\ WrapIdle
    /\ ParserIdle
    /\ FsIdle
    /\ TmpIdle
    /\ ValIdle
    /\ PathIdle
    /\ CliIdle
    /\ GroupsIdle

SetLoggingVerbosity(v) ==
    /\ Len(logcalls) < MaxLogCalls
    /\ LET lg == set_logging_verbosity(v, RootLogger)
       IN  /\ rootHandlers' = lg.handlers
           /\ rootLevel' = lg.level
    /\ logcalls' = Append(logcalls, [fn |-> "set_logging_verbosity",
                                     verbosity |-> v, raised |-> "none"])
    /\ UNCHANGED nonLogVars

CLTool_Construct(v) ==
    /\ Len(logcalls) < MaxLogCalls
    /\ LET did == CLTool_init(v, RootLogger)
       IN  /\ rootHandlers' = did.logger.handlers
           /\ rootLevel' = did.logger.level
           /\ logcalls' = Append(logcalls, [fn |-> "CLTool",
                                            verbosity |-> v,
                                            raised |-> did.raised])
    /\ UNCHANGED nonLogVars

NextLogging ==
    \/ \E v \in Verbosities : SetLoggingVerbosity(v)
    \/ \E v \in Verbosities : CLTool_Construct(v)

SpecLogging == InitLogging /\ [][NextLogging]_vars

---------------------------------------------------------------------------
(* Claims about the root logger                                            *)

LastLogCall == logcalls[Len(logcalls)]

\* The level the specification gives for a verbosity
C22_Mapped(v) ==
    CASE v <= 0 -> "ERROR"
      [] v = 1  -> "WARNING"
      [] v = 2  -> "INFO"
      [] v >= 3 -> "DEBUG"

\* How much a level lets through
Verboseness(lvl) ==
    CASE lvl = "ERROR"   -> 0
      [] lvl = "WARNING" -> 1
      [] lvl = "INFO"    -> 2
      [] lvl = "DEBUG"   -> 3

\* C22: after any sequence of calls set_logging_verbosity(v1..vn) the root
\* logger's level is the one mapped from vn alone (ERROR for vn <= 0,
\* WARNING for 1, INFO for 2, DEBUG for vn >= 3); every verbosity maps to
\* exactly one level, and a larger verbosity never gives a less verbose
\* level.
C22_LevelFromLastCall ==
    /\ \A v \in Verbosities : LevelOf(v) = C22_Mapped(v)
    /\ \A a, b \in Verbosities :
         a <= b => Verboseness(LevelOf(a)) <= Verboseness(LevelOf(b))
    /\ (logcalls # <<>> /\ LastLogCall.fn = "set_logging_verbosity") =>
         rootLevel = C22_Mapped(LastLogCall.verbosity)

\* Logging was configured, two calls gave different levels, and the level
\* is the second call's.
C22_Witness ==
    /\ Len(logcalls) = 2
    /\ logcalls[1].fn = "set_logging_verbosity"
    /\ logcalls[2].fn = "set_logging_verbosity"
    /\ logcalls[1].verbosity = 3
    /\ logcalls[2].verbosity = 0
    /\ rootLevel = "ERROR"

\* C28: constructing a CLTool with verbosity v always leaves the root
\* logger at the level mapped from v (ERROR for 0, WARNING for 1, INFO for
\* 2, DEBUG for 3 and more), including when logging was already configured
\* or another tool was constructed earlier in the same process with a
\* different verbosity.
C28_ConstructionSetsLevel ==
    (/\ logcalls # <<>>
     /\ LastLogCall.fn = "CLTool"
     /\ LastLogCall.raised = "none") =>
        rootLevel = C22_Mapped(LastLogCall.verbosity)

---------------------------------------------------------------------------
(* exception.py: the classes of the errors raised                          *)

\* exception.py 13-73 and the built-in hierarchy: the base class of each
BaseOf(kind) ==
    CASE kind \in {"GetterError", "SetterError"} -> "TypeError"
      [] kind \in {"DirectoryExistsError", "DirectoryNotFoundError",
                   "ExecutableNotFoundError", "IsAFileError", "NotAFileError",
                   "NotAFileOrDirectoryError", "UnsupportedPlatformError",
                   "FileNotFoundError", "NotADirectoryError",
                   "IsADirectoryError", "FileExistsError",
                   "PermissionError"} -> "OSError"
      [] kind = "KeyError" -> "LookupError"
      [] OTHER -> "Exception"

\* isinstance(error, cls), as an except clause decides it
RECURSIVE IsInstance(_, _)
IsInstance(kind, cls) ==
    \/ kind = cls
    \/ kind # "Exception" /\ IsInstance(BaseOf(kind), cls)

---------------------------------------------------------------------------
(* Claims about validate_input_path on a missing path                      *)

InputPathCalled == presult # <<>> /\ pfn = "validate_input_path"

\* The path does not exist when validate_input_path is called.
InputPathMissing ==
    ~exists(presult[1].before, Absolute(pvalue, default_directory))

\* C23: validate_input_path on a path that does not exist, when directory
\* creation is not requested, raises FileNotFoundError for every permitted
\* combination of file_ok and directory_ok, and leaves the filesystem
\* unchanged; with neither file_ok nor directory_ok it raises
\* ArgumentConflictError before the filesystem is consulted.
C23_MissingInputPath ==
    InputPathCalled =>
        /\ (InputPathMissing /\ ~create_directory /\ (file_ok \/ directory_ok)) =>
             /\ IsInstance(presult[1].outcome.kind, "FileNotFoundError")
             /\ disk = presult[1].before
        /\ (~file_ok /\ ~directory_ok) =>
             /\ presult[1].outcome.kind = "ArgumentConflictError"
             /\ disk = presult[1].before

\* C23 where it holds: file paths are allowed.
C23_MissingInputFile ==
    (InputPathCalled /\ InputPathMissing /\ ~create_directory /\ file_ok) =>
        /\ presult[1].outcome.kind = "FileNotFoundError"
        /\ disk = presult[1].before

---------------------------------------------------------------------------
(* argument_parsing.py, command_line_interface.py, command_line_tool.py:   *)
(* one parser to which groups are added and on which                       *)
(* get_required_arguments_group and get_arg_groups_by_name are called, in  *)
(* any order.                                                              *)

RequiredTitle == "required arguments"

\* The first group of a title: what any(... := ag ...) stops at
FirstTitled(groups, title) ==
    LET found == {i \in 1..Len(groups) : groups[i].title = title}
    IN  IF found = {} THEN 0
        ELSE CHOOSE i \in found : \A j \in found : i <= j

\* argument_parsing.py 42-59: the group found is returned; otherwise the
\* last group is popped, the new group added, and the popped one appended
get_required_arguments_group(groups, n) ==
    LET i == FirstTitled(groups, RequiredTitle)
        optional == groups[Len(groups)]
        required == [id |-> n + 1, title |-> RequiredTitle]
    IN  IF i # 0
        THEN [action_groups |-> groups, made |-> n, returned |-> groups[i]]
        ELSE [action_groups |-> SubSeq(groups, 1, Len(groups) - 1)
                                \o <<required, optional>>,
              made |-> n + 1,
              returned |-> required]

InitParser ==
    /\ parser = DefaultGroups
    /\ created = Len(DefaultGroups)
    /\ history = <<>>
    /\ RunIdle
    /\ EnumIdle
    /\ WrapIdle
    /\ FsIdle
    /\ TmpIdle
    /\ ValIdle
    /\ PathIdle
    /\ CliIdle
    /\ GroupsIdle
    /\ LogIdle

\* One operation on the parser, recorded
ParserDid(op, ns, groups, n, group) ==
    /\ parser' = groups
    /\ created' = n
    /\ history' = Append(history, [op |-> op, names |-> ns, before |-> parser,
                                   after |-> groups, group |-> group])
    /\ UNCHANGED nonParserVars

\* parser.add_argument_group(title)
Parser_AddArgumentGroup(title) ==
    /\ Len(history) < MaxParserOps
    /\ ParserDid("add_argument_group", <<title>>,
                 Append(parser, [id |-> created + 1, title |-> title]),
                 created + 1, <<[id |-> created + 1, title |-> title]>>)

Parser_GetRequiredArgumentsGroup ==
    /\ Len(history) < MaxParserOps
    /\ LET call == get_required_arguments_group(parser, created)
       IN  ParserDid("get_required_arguments_group", <<>>,
                     call.action_groups, call.made, <<call.returned>>)

Parser_GetArgGroupsByName(ns) ==
    /\ Len(history) < MaxParserOps
    /\ LET call == get_arg_groups_by_name(parser, ns, created)
       IN  ParserDid("get_arg_groups_by_name", ns, call.action_groups,
                     call.made, <<>>)

NextParser ==
    \/ \E title \in UserTitles : Parser_AddArgumentGroup(title)
    \/ Parser_GetRequiredArgumentsGroup
    \/ \E ns \in SeqsUpTo(GroupNames, MaxNames) : Parser_GetArgGroupsByName(ns)

SpecParser == InitParser /\ [][NextParser]_vars

---------------------------------------------------------------------------
(* Claims about get_required_arguments_group                               *)

Ids(groups) == [i \in 1..Len(groups) |-> groups[i].id]

RECURSIVE Except(_, _)
\* The groups but the ones of a title, in order
Except(groups, title) ==
    IF groups = <<>> THEN <<>>
    ELSE IF Head(groups).title = title THEN Except(Tail(groups), title)
    ELSE <<Head(groups)>> \o Except(Tail(groups), title)

RequiredCalls ==
    {k \in 1..Len(history) : history[k].op = "get_required_arguments_group"}

\* Only groups were added and get_required_arguments_group called.
OnlyRequiredCalls ==
    /\ RequiredCalls # {}
    /\ \A k \in 1..Len(history) : history[k].op # "get_arg_groups_by_name"

\* The default group of optional arguments, whatever its title
IsOptionalGroup(group) == group.id = DefaultGroups[2].id

\* Exactly one group is titled 'required arguments', every call returned
\* it, and every call left the other groups in their order.
GetOrCreate ==
    /\ Cardinality({i \in 1..Len(parser) : parser[i].title = RequiredTitle}) = 1
    /\ \A k \in RequiredCalls :
         /\ \E i \in 1..Len(parser) : parser[i] = history[k].group[1]
         /\ history[k].group[1].title = RequiredTitle
         /\ Except(history[k].after, RequiredTitle)
              = Except(history[k].before, RequiredTitle)

\* The 'required arguments' group is immediately above the optional group.
RequiredAboveOptional ==
    \E i \in 1..(Len(parser) - 1) :
        /\ parser[i].title = RequiredTitle
        /\ IsOptionalGroup(parser[i + 1])

\* C24: get_required_arguments_group is get-or-create: after any number of
\* calls on a parser (with any other groups added before or between calls)
\* the parser has exactly one group titled 'required arguments', every call
\* returns that same group, every other group is still present in its
\* previous relative order, and the 'required arguments' group is placed
\* immediately above the 'optional arguments' group.
C24_RequiredGroupGetOrCreate ==
    OnlyRequiredCalls => (GetOrCreate /\ RequiredAboveOptional)

\* C24 without the placement: get-or-create as such.
C24_GetOrCreate == OnlyRequiredCalls => GetOrCreate

\* C24 on a parser to which no group was added before the first call.
C24_CalledFirst ==
    (OnlyRequiredCalls /\ history[1].op = "get_required_arguments_group") =>
        RequiredAboveOptional

---------------------------------------------------------------------------
(* Claims about what get_arg_groups_by_name leaves alone                   *)

LastOp == history[Len(history)]

\* The last operation is a call of get_arg_groups_by_name, with names given
\* once each.
ByNameCalled ==
    /\ history # <<>>
    /\ LastOp.op = "get_arg_groups_by_name"
    /\ \A i, j \in 1..Len(LastOp.names) :
         LastOp.names[i] = LastOp.names[j] => i = j

\* The position of the group of an id, 0 when it is not there
PositionOf(groups, id) ==
    IF \E i \in 1..Len(groups) : groups[i].id = id
    THEN CHOOSE i \in 1..Len(groups) : groups[i].id = id
    ELSE 0

Named(call, group) == \E i \in 1..Len(call.names) : call.names[i] = group.title

\* Every group present before the call is in the parser after it.
AllStillPresent(call) ==
    \A k \in 1..Len(call.before) :
        PositionOf(call.after, call.before[k].id) # 0

\* The groups not named are in the order they were in.
UnnamedKeepOrder(call) ==
    \A k, l \in 1..Len(call.before) :
        (/\ k < l
         /\ ~Named(call, call.before[k])
         /\ ~Named(call, call.before[l])
         /\ PositionOf(call.after, call.before[k].id) # 0
         /\ PositionOf(call.after, call.before[l].id) # 0) =>
            PositionOf(call.after, call.before[k].id)
                < PositionOf(call.after, call.before[l].id)

\* The call repeats the call before it.
RepeatsCall ==
    /\ Len(history) >= 2
    /\ history[Len(history) - 1].op = "get_arg_groups_by_name"
    /\ history[Len(history) - 1].names = LastOp.names

\* C27: apart from creating missing named groups and moving named groups
\* to the front, get_arg_groups_by_name leaves the parser's groups as they
\* were: every group present before (titled or untitled) is still in the
\* parser, groups not named keep their relative order, and a second call
\* with the same names leaves the group order unchanged.  Stated for names
\* given once each.
C27_OtherGroupsLeftAlone ==
    ByNameCalled =>
        /\ AllStillPresent(LastOp)
        /\ UnnamedKeepOrder(LastOp)
        /\ RepeatsCall => Ids(LastOp.after) = Ids(LastOp.before)

\* The three parts of C27, each alone.
C27_AllStillPresent == ByNameCalled => AllStillPresent(LastOp)
C27_UnnamedKeepOrder == ByNameCalled => UnnamedKeepOrder(LastOp)
C27_SecondCallSameOrder ==
    (ByNameCalled /\ RepeatsCall) => Ids(LastOp.after) = Ids(LastOp.before)

---------------------------------------------------------------------------
(* argument_parsing.py, command_line_interface.py: get_validator.  The     *)
(* function wrapped is validate_int or validate_float with bounds as its   *)
(* kwargs, or some other function, which returns or raises an error of any *)
(* class.                                                                  *)

ErrorKinds ==
    {"TypeError", "GetterError", "SetterError", "ValueError",
     "ArgumentConflictError", "FileNotFoundError", "NotAFileError",
     "DirectoryNotFoundError", "PermissionError", "OSError", "KeyError"}

WrappedCalls ==
    [function : {"validate_int", "validate_float"}, value : Strings,
     min_value : OptionalBound, max_value : OptionalBound, raises : {"none"}]
    \cup [function : {"function"}, value : Strings,
          min_value : {<<>>}, max_value : {<<>>},
          raises : ErrorKinds \cup {"none"}]

\* A slip the claims must notice: every error is caught.
get_validator_CatchAll(did) ==
    IF did.kind # "returned" THEN Raises("ArgumentTypeError", <<>>) ELSE did

\* argument_parsing.py 134-137, command_line_interface.py 282-285: what
\* wrapped(value) does, given what function(value, **kwargs) did
get_validator(did) ==
    IF did.kind # "returned" /\ IsInstance(did.kind, "TypeError")
    THEN Raises("ArgumentTypeError", <<>>)
    ELSE did

InitWrapped ==
    /\ wcall \in WrappedCalls
    /\ inner = <<>>
    /\ wrapped = <<>>
    /\ RunIdle
    /\ EnumIdle
    /\ FsIdle
    /\ TmpIdle
    /\ ValIdle
    /\ PathIdle
    /\ CliIdle
    /\ GroupsIdle
    /\ LogIdle
    /\ ParserIdle

\* wrapped(value): function(value, **kwargs) within the try statement
WrappedCalled(did) ==
    /\ inner' = <<did>>
    /\ wrapped' = <<get_validator(did)>>
    /\ UNCHANGED wcall
    /\ UNCHANGED nonWrapVars

Wrapped_ValidateInt ==
    /\ wcall.function = "validate_int"
    /\ inner = <<>>
    /\ WrappedCalled(validate_int(wcall.value, wcall.min_value,
                                  wcall.max_value, <<>>))

Wrapped_ValidateFloat ==
    /\ wcall.function = "validate_float"
    /\ inner = <<>>
    /\ WrappedCalled(validate_float(wcall.value, wcall.min_value,
                                    wcall.max_value))

Wrapped_Function ==
    /\ wcall.function = "function"
    /\ inner = <<>>
    /\ WrappedCalled(IF wcall.raises = "none" THEN Returns(wcall.value)
                     ELSE Raises(wcall.raises, <<>>))

NextWrapped ==
    \/ Wrapped_ValidateInt
    \/ Wrapped_ValidateFloat
    \/ Wrapped_Function

SpecWrapped == InitWrapped /\ [][NextWrapped]_vars

---------------------------------------------------------------------------
(* Claims about get_validator                                              *)

\* C25: the function returned by get_validator(function, **kwargs) behaves
\* as function(value, **kwargs): it returns the same result, raises
\* ArgumentTypeError when function raises TypeError (or a subclass of it),
\* and lets every other error (ValueError, ArgumentConflictError,
\* file-system errors) propagate unchanged.
C25_WrappedBehavesAsFunction ==
    wrapped # <<>> =>
        IF inner[1].kind = "returned"
        THEN wrapped[1] = inner[1]
        ELSE IF inner[1].kind \in {"TypeError", "GetterError", "SetterError"}
        THEN wrapped[1].kind = "ArgumentTypeError"
        ELSE wrapped[1] = inner[1]

\* validate_int raised ValueError for a value below min_value, and the
\* caller of the wrapped function sees that ValueError.
C25_Witness ==
    /\ wrapped # <<>>
    /\ wcall.function = "validate_int"
    /\ inner[1].kind = "ValueError"
    /\ wrapped[1] = inner[1]

\* validate_float could not cast the value, and the caller sees
\* ArgumentTypeError.
C25_WitnessTypeError ==
    /\ wrapped # <<>>
    /\ wcall.function = "validate_float"
    /\ inner[1].kind = "TypeError"
    /\ wrapped[1].kind = "ArgumentTypeError"

---------------------------------------------------------------------------
(* validation.py: validate_enum.  The enum given is the class Color with   *)
(* the members RED and BLUE, or a class that is not an Enum.  A string is  *)
(* the sequence of its pieces.                                             *)

EnumName == "Enum"            \* Enum.__name__
Dot == "."
EnumClasses == {"Color", "Other"}
EnumArguments == {"Color", "int"}

\* enum.__members__
Members(cls) ==
    CASE cls = "Color" -> {"RED", "BLUE"}
      [] cls = "Other" -> {"RED"}
      [] OTHER -> {}

\* Names hasattr(enum, name) finds that are no members: the attributes of
\* every class and of EnumType
OtherAttributes == {"__doc__", "mro"}

EnumPieces == {EnumName, Dot, "Color", "RED", "GREEN", "mro", "__doc__"}

Member(cls, name) == [kind |-> "member", cls |-> cls, name |-> name, text |-> <<>>]
StrValue(str) == [kind |-> "str", cls |-> "", name |-> "", text |-> str]

EnumValues ==
    {Member(cls, name) : cls \in EnumClasses, name \in {"RED", "BLUE"}}
    \cup {StrValue(str) : str \in SeqsUpTo(EnumPieces, MaxEnumLen)}

\* str(value): a member prints as 'Class.NAME'
Str(v) == IF v.kind = "member" THEN <<v.cls, Dot, v.name>> ELSE v.text

\* str.lstrip(".")
RECURSIVE LStripDot(_)
LStripDot(str) ==
    IF str # <<>> /\ Head(str) = Dot THEN LStripDot(Tail(str)) ELSE str

\* validation.py 50-51: the prefix taken off is Enum.__name__, 'Enum'
StripEnumName(str) ==
    IF str # <<>> /\ Head(str) = EnumName THEN LStripDot(Tail(str)) ELSE str

\* hasattr(enum, value)
HasAttr(cls, str) ==
    Len(str) = 1 /\ str[1] \in Members(cls) \cup OtherAttributes

\* validation.py 34-58
validate_enum(v, enum) ==
    IF enum \notin EnumClasses
    THEN Raises("TypeError", <<>>)
    ELSE IF v.kind = "member" /\ v.cls = enum
    THEN Returns(v)
    ELSE LET str == StripEnumName(Str(v))
         IN  IF HasAttr(enum, str)
             THEN IF str[1] \in Members(enum)
                  THEN Returns(Member(enum, str[1]))
                  ELSE Raises("KeyError", <<>>)
             ELSE Raises("TypeError", <<>>)

InitEnum ==
    /\ evalue \in EnumValues
    /\ eclass \in EnumArguments
    /\ eresult = <<>>
    /\ RunIdle
    /\ FsIdle
    /\ TmpIdle
    /\ ValIdle
    /\ PathIdle
    /\ CliIdle
    /\ GroupsIdle
    /\ LogIdle
    /\ ParserIdle
    /\ WrapIdle

Validate_Enum ==
    /\ eresult = <<>>
    /\ eresult' = <<validate_enum(evalue, eclass)>>
    /\ UNCHANGED <<evalue, eclass>>
    /\ UNCHANGED nonEnumVars

NextEnum == Validate_Enum

SpecEnum == InitEnum /\ [][NextEnum]_vars

---------------------------------------------------------------------------
(* Claims about validate_enum                                              *)

EnumCalled == eresult # <<>> /\ eclass \in EnumClasses

\* The member the string form denotes: its name, with or without the
\* prefix of the enum's class name
Denoted ==
    LET str == Str(evalue)
        name == IF Len(str) = 3 /\ str[1] = eclass /\ str[2] = Dot
                THEN <<str[3]>> ELSE str
    IN  IF Len(name) = 1 /\ name[1] \in Members(eclass)
        THEN <<Member(eclass, name[1])>>
        ELSE <<>>

\* C26: validate_enum has only two outcomes for a valid Enum class: it
\* returns a member (the value itself if it is one already, otherwise the
\* member whose name the string form denotes, with or without the enum's
\* class-name prefix) or raises TypeError; no other error kind escapes for
\* any value, including strings that name a non-member attribute of the
\* enum class.
C26_MemberOrTypeError ==
    EnumCalled =>
        /\ eresult[1].kind \in {"returned", "TypeError"}
        /\ (evalue.kind = "member" /\ evalue.cls = eclass) =>
             eresult[1] = Returns(evalue)
        /\ (evalue.kind = "str" /\ Denoted # <<>>) =>
             eresult[1] = Returns(Denoted[1])
        /\ eresult[1].kind = "returned" =>
             eresult[1].value[1].name \in Members(eclass)

\* C26 for the values that are members or bare member names, and for what
\* is returned: always a member.
C26_MembersAndNames ==
    EnumCalled =>
        /\ (evalue.kind = "member" /\ evalue.cls = eclass) =>
             eresult[1] = Returns(evalue)
        /\ (Len(Str(evalue)) = 1 /\ Str(evalue)[1] \in Members(eclass)) =>
             eresult[1] = Returns(Member(eclass, Str(evalue)[1]))
        /\ eresult[1].kind = "returned" =>
             eresult[1].value[1].name \in Members(eclass)

---------------------------------------------------------------------------
(* Claims about run_command and the volume of output                       *)

\* run_command is in child.wait(timeout) and the command has not exited.
WaitingForCommand ==
    /\ fn = "run_command"
    /\ command.exit # <<>>
    /\ pc = "wait"
    /\ child.state = "running"

\* C29: run_command returns the exit code and complete output of every
\* command that would exit by itself within the timeout once its output is
\* read, however much it writes: output volume alone (more than a pipe
\* buffer holds) never makes run_command time out or hang.  Stated at the
\* wait: while run_command waits for such a command, the command can take
\* its next step; it is never blocked on a full pipe, where nothing but the
\* expiry of the timeout, if there is one, ends the wait.
C29_OutputNeverBlocks ==
    WaitingForCommand => (ENABLED ChildWrite \/ ENABLED ChildExit)

\* C29 for a command that writes no more to a stream than a pipe buffers.
C29_SmallOutput ==
    (WaitingForCommand /\ \A s \in Streams : Len(StreamOf(Prog, s)) <= PipeCap) =>
        (ENABLED ChildWrite \/ ENABLED ChildExit)

---------------------------------------------------------------------------
(* Claims about the cleanup of temporary_filename                          *)

\* The cleanup of a temporary_filename block whose body has deleted the
\* file at the path, or never created it, is about to run.
CleanupOfAbsent ==
    /\ tpc = "cleanup"
    /\ helper \in TemporaryFilenames
    /\ bodyLeft = "absent"

\* C30: cleanup of a temporary_filename block raises no error of its own
\* and never replaces the body's exception: when the body has already
\* deleted the file at the yielded path, or never created it, leaving the
\* block normally raises nothing and leaving it through an exception
\* re-raises exactly the body's exception.
C30_CleanupKeepsException ==
    [][CleanupOfAbsent => texc' = texc]_vars

\* C30 for temporary_filename of file.py.
C30_FileCleanupKeepsException ==
    [][(CleanupOfAbsent /\ helper = "file.temporary_filename") =>
           texc' = texc]_vars

===========================================================================
